---- MODULE Spec2Model ----
(***************************************************************************)
(* Model of the environmental-burden-of-disease data pipeline:             *)
(*   code/features/data_cleaning.py   the three cleaners and the resolver  *)
(*   code/features/EDA_NoMarkdown.py  the pipeline script and the merge    *)
(*   code/deployment/app.py           the dashboard's data and callbacks   *)
(*                                                                         *)
(* A pandas DataFrame is a sequence of rows (records); a column label that *)
(* the code compares or converts as text (the year labels) is a sequence   *)
(* of code points, so that text order and int() are computed, not assumed. *)
(* A float is an exact number: an integer, or a rational [n, d] where the  *)
(* code takes a mean.                                                      *)
(***************************************************************************)
EXTENDS Integers, Sequences, FiniteSets, TLC

VARIABLES
    pc,                     \* position of the script that is running
    health_exp_raw,         \* EDA_NoMarkdown.py:35
    env_exp_raw,            \* EDA_NoMarkdown.py:42
    env_burden_raw,         \* EDA_NoMarkdown.py:49
    country_name_mapping,   \* EDA_NoMarkdown.py:29
    variable_name_mapping,  \* EDA_NoMarkdown.py:32
    health_exp_clean,       \* EDA_NoMarkdown.py:38
    env_exp_clean,          \* EDA_NoMarkdown.py:45
    env_burden_clean,       \* EDA_NoMarkdown.py:52
    processed,              \* the files of ../data/processed
    env_burden_data,        \* EDA_NoMarkdown.py:58 and datasets/env_burden_data.csv
    df_global,              \* app.py:16
    df_exp,                 \* app.py:37
    response,               \* data_delivery.py:138, what the server answers
    raw_folder,             \* the files of ../data/raw
    interim_folder,         \* the files of ../data/interim
    num_zip_archives,       \* data_delivery.py:11
    console,                \* what has been printed
    runs,                   \* how many cleaner calls have been made
    requests_sent,          \* how many times requests.get was called, data_delivery.py:138
    pickers,                \* app.py:95-123, the values of the four dropdowns in the browser
    n_clicks,               \* app.py:126, n_clicks of the apply button
    picks,                  \* how many times a dropdown was changed
    callbacks,              \* app.py:217-338, the last request of each callback and its outcome
    charts                  \* app.py:217-333, the figure and the title of each chart

vars == <<pc, health_exp_raw, env_exp_raw, env_burden_raw, country_name_mapping,
          variable_name_mapping, health_exp_clean, env_exp_clean, env_burden_clean,
          processed, env_burden_data, df_global, df_exp,
          response, raw_folder, interim_folder, num_zip_archives, console, runs,
          requests_sent, pickers, n_clicks, picks, callbacks, charts>>

-----------------------------------------------------------------------------
(* Values *)

\* Python's None / pandas' missing marker in a text column.
NONE == "<None>"

\* A cell of a raw table: a number, a text, or a missing value (NaN).
Num(v) == [kind |-> "num", v |-> v, s |-> ""]
Txt(s) == [kind |-> "str", v |-> 0, s |-> s]
NA == [kind |-> "na", v |-> 0, s |-> ""]

\* What a loader returns when it ends without a return statement: no DataFrame.
PyNone == [none |-> TRUE]

\* The empty dict.
EmptyMapping == [k \in {} |-> NONE]

\* dict lookup with default: pandas' replace / rename leave an unmapped name alone.
\* Mutant: the dict is not applied, every name stays as the extract has it.
MapName_Unmapped(mapping, name) == name

MapName(mapping, name) == IF name \in DOMAIN mapping THEN mapping[name] ELSE name

\* str(n) for a four-digit year, as code points ('0' is 48).
YearLabel(n) ==
    <<48 + (n \div 1000), 48 + ((n \div 100) % 10), 48 + ((n \div 10) % 10), 48 + (n % 10)>>

\* 'F' + str(n): the year columns of the IMF extract ('F' is 70).
FLabel(n) == <<70>> \o YearLabel(n)

\* Python's str <= str: code point by code point, a proper prefix is smaller.
RECURSIVE StrLeq(_, _)
StrLeq(a, b) ==
    IF a = <<>> THEN TRUE
    ELSE IF b = <<>> THEN FALSE
    ELSE IF Head(a) < Head(b) THEN TRUE
    ELSE IF Head(a) > Head(b) THEN FALSE
    ELSE StrLeq(Tail(a), Tail(b))

\* Whether int(text) succeeds: a non-empty run of decimal digits.
IsDigits(t) == Len(t) > 0 /\ \A i \in 1..Len(t) : t[i] \in 48..57

\* int(text) of a run of decimal digits.
RECURSIVE ParseInt(_)
ParseInt(t) ==
    IF t = <<>> THEN 0 ELSE 10 * ParseInt(SubSeq(t, 1, Len(t) - 1)) + (t[Len(t)] - 48)

\* str.replace('F', ''): every 'F' removed.
StripF(t) == SelectSeq(t, LAMBDA ch : ch # 70)

\* The set of members of a sequence.
Range(s) == {s[i] : i \in 1..Len(s)}

\* Exact numbers for the floats the code computes: n / d in lowest terms, d > 0.
Abs(x) == IF x < 0 THEN -x ELSE x

RECURSIVE GCD(_, _)
GCD(a, b) == IF b = 0 THEN a ELSE GCD(b, a % b)

Rat(n, d) == LET g == GCD(Abs(n), d) IN [n |-> n \div g, d |-> d \div g]
R(v) == [n |-> v, d |-> 1]
RAdd(a, b) == Rat(a.n * b.d + b.n * a.d, a.d * b.d)
RSub(a, b) == Rat(a.n * b.d - b.n * a.d, a.d * b.d)

RECURSIVE SumInts(_)
SumInts(s) == IF s = <<>> THEN 0 ELSE Head(s) + SumInts(Tail(s))

RECURSIVE SumRats(_)
SumRats(s) == IF s = <<>> THEN R(0) ELSE RAdd(Head(s), SumRats(Tail(s)))

\* The mean of a non-empty sequence of integers.
Mean(s) == Rat(SumInts(s), Len(s))

\* Python's order of the texts the model uses, ascending (sort_values, groupby).
SortedNames ==
    <<"BHS", "Bahamas", "Bahamas, The", "Chad",
      "Expenditure on biodiversity & landscape protection",
      "Expenditure on climate change adaptation",
      "Expenditure on environment protection",
      "Expenditure on environmental protection R&D",
      "Expenditure on environmental protection n.e.c.",
      "Expenditure on pollution abatement",
      "Expenditure on waste management",
      "Expenditure on waste water management",
      "High temperature",
      "Non-optimal temperature",
      "TCD",
      "Unsafe water source",
      "Unsafe water, sanitation, and handwashing">>

\* The members of a set of texts, in ascending order.
SortNames(S) == SelectSeq(SortedNames, LAMBDA x : x \in S)

\* The members of a set of labels, in ascending text order.
RECURSIVE SortLabels(_)
SortLabels(S) ==
    IF S = {} THEN <<>>
    ELSE LET m == CHOOSE x \in S : \A y \in S : StrLeq(x, y)
         IN  <<m>> \o SortLabels(S \ {m})

\* A failed call: what the exception was; nothing is returned.
Raised(exc) == [status |-> exc, table |-> <<>>, columns |-> <<>>]

\* A file of ../data/processed.
NoFile == [exists |-> FALSE, content |-> <<>>, columns |-> <<>>]
Written(res) == [exists |-> TRUE, content |-> res.table, columns |-> res.columns]

-----------------------------------------------------------------------------
(* data_cleaning.py: the country code resolver *)

\* Mutant: the name itself is returned where the lookup fails.
get_country_code_NameOnFailure(country_name) ==
    CASE country_name = "Bahamas" -> "BHS"
      [] country_name = "Chad" -> "TCD"
      [] OTHER -> country_name

\* pycountry's table, as far as the names of the model go: the canonical names
\* resolve, the long World Bank forms do not.
get_country_code(country_name) ==
    CASE country_name = "Bahamas" -> "BHS"
      [] country_name = "Chad" -> "TCD"
      [] OTHER -> NONE

-----------------------------------------------------------------------------
(* data_cleaning.py: clean_health_exp_data *)

YearLo == 2010
YearHi == 2019

\* subset=['2010', ..., '2019'] of step 6.
HealthYearSubset == {YearLabel(y) : y \in YearLo..YearHi}

\* Mutant: dropna(how='all'), a row is dropped only when all ten years are missing.
HealthKeptRows_DropAllMissing(df_raw, mapping) ==
    LET step1 == SubSeq(df_raw.rows, 1, Len(df_raw.rows) - 1)
        step4 == [i \in 1..Len(step1) |->
                    [step1[i] EXCEPT !.country = MapName(mapping, step1[i].country)]]
        Missing(cell) == cell.kind = "na" \/ (cell.kind = "str" /\ cell.s \in {"..", "..."})
    IN  SelectSeq(step4, LAMBDA r : \E y \in HealthYearSubset : ~Missing(r.cells[y]))

\* Steps 1 to 6: the raw rows that are kept, with the canonical country name.
HealthKeptRows(df_raw, mapping) ==
    LET step1 == SubSeq(df_raw.rows, 1, Len(df_raw.rows) - 1)
        step4 == [i \in 1..Len(step1) |->
                    [step1[i] EXCEPT !.country = MapName(mapping, step1[i].country)]]
        Missing(cell) == cell.kind = "na" \/ (cell.kind = "str" /\ cell.s \in {"..", "..."})
    IN  SelectSeq(step4, LAMBDA r : \A y \in HealthYearSubset : ~Missing(r.cells[y]))

\* Step 7: melt(id_vars='country'): one row per (column, raw row), column by column.
HealthMelt(cols, rows) ==
    [k \in 1..(Len(cols) * Len(rows)) |->
        LET c == cols[((k - 1) \div Len(rows)) + 1]
            r == rows[((k - 1) % Len(rows)) + 1]
        IN  [country |-> r.country, year |-> c, HEALTH_EXP |-> r.cells[c]]]

\* Step 8: the rows whose year label lies between '2010' and '2019' as text.
HealthYearFilter(rows) ==
    SelectSeq(rows, LAMBDA r : StrLeq(r.year, YearLabel(YearHi)) /\ StrLeq(YearLabel(YearLo), r.year))

HealthColumns == <<"country", "year", "HEALTH_EXP", "ISO_3166_1_alpha_3">>

clean_health_exp_data(df_raw, mapping) ==
    IF df_raw = PyNone THEN Raised("AttributeError")                 \* None.drop
    ELSE IF Len(df_raw.rows) = 0 THEN Raised("IndexError")           \* df_raw.index[-1]
    ELSE IF ~df_raw.unnamed11 THEN Raised("KeyError")                \* drop('Unnamed: 11')
    ELSE IF ~(HealthYearSubset \subseteq Range(df_raw.columns)) THEN Raised("KeyError") \* dropna(subset)
    ELSE
      LET step8 == HealthYearFilter(HealthMelt(df_raw.columns, HealthKeptRows(df_raw, mapping)))
      IN  IF \E i \in 1..Len(step8) : ~IsDigits(step8[i].year) \/ step8[i].HEALTH_EXP.kind # "num"
          THEN Raised("ValueError")                                   \* astype
          ELSE [status |-> "ok",
                columns |-> HealthColumns,
                table |-> [i \in 1..Len(step8) |->
                    [country |-> step8[i].country,
                     year |-> ParseInt(step8[i].year),
                     HEALTH_EXP |-> R(step8[i].HEALTH_EXP.v),
                     ISO_3166_1_alpha_3 |-> get_country_code(step8[i].country)]]]

-----------------------------------------------------------------------------
(* data_cleaning.py: clean_env_exp_data *)

DropFrom1 == 1995
DropTo1 == 2008
DropFrom2 == 2020
DropTo2 == 2022

\* years_to_drop: [f'F{i}' for i in range(1995, 2009)] + [f'F{i}' for i in range(2020, 2023)]
years_to_drop == {FLabel(y) : y \in (DropFrom1..DropTo1) \cup (DropFrom2..DropTo2)}

\* subset=['F2010', ..., 'F2019'] of step 6.
EnvYearSubset == {FLabel(y) : y \in YearLo..YearHi}

env_expenditures_to_sum_up ==
    <<"ENV_EXP_Prot", "ENV_EXP_BIODIV", "ENV_EXP_OTHER", "ENV_EXP_ResDev",
      "ENV_EXP_POLLUTION", "ENV_EXP_WASTE", "ENV_EXP_WASTEWATER">>

\* Mutant: no unit filter, the rows of every unit are kept.
EnvUnitRows_AnyUnit(df_raw) == df_raw.rows

\* Step 3: the rows whose Unit is 'Percent of GDP'.
EnvUnitRows(df_raw) == SelectSeq(df_raw.rows, LAMBDA r : r.Unit = "Percent of GDP")

\* Mutant: dropna(how='all'), a row is dropped only when every year is missing.
EnvCompleteRows_DropAllMissing(rows) ==
    SelectSeq(rows, LAMBDA r : \E y \in EnvYearSubset : r.cells[y].kind # "na")

\* Step 6: the rows with a value in every year column F2010..F2019.
EnvCompleteRows(rows) ==
    SelectSeq(rows, LAMBDA r : \A y \in EnvYearSubset : r.cells[y].kind # "na")

\* Steps 7 and 8, one cell of the pivot table: the mean (pivot_table's default
\* aggfunc) of the values the melted rows hold for the index (country, iso, year
\* label) and the column cat; NA when they hold none.
EnvPivotCell(rows, country, iso, label, cat) ==
    LET hits == SelectSeq(rows, LAMBDA r :
                    /\ r.Country = country /\ r.ISO3 = iso /\ r.CTS_Name = cat
                    /\ r.cells[label].kind = "num")
    IN  IF Len(hits) = 0 THEN NA
        ELSE [kind |-> "rat", v |-> Mean([i \in 1..Len(hits) |-> hits[i].cells[label].v]), s |-> ""]

\* The index of the pivot table, sorted: groupby leaves out a key with a missing
\* part, and pivot_table drops a row whose values are all missing.
EnvPivotIndex(rows, labels) ==
    LET countries == SortNames({rows[i].Country : i \in 1..Len(rows)} \ {NONE})
        isos == SortNames({rows[i].ISO3 : i \in 1..Len(rows)} \ {NONE})
        cats == {rows[i].CTS_Name : i \in 1..Len(rows)} \ {NONE}
        nI == Len(isos)
        nL == Len(labels)
        all == [k \in 1..(Len(countries) * nI * nL) |->
                  [Country |-> countries[((k - 1) \div (nI * nL)) + 1],
                   ISO3 |-> isos[(((k - 1) \div nL) % nI) + 1],
                   Year |-> labels[((k - 1) % nL) + 1]]]
    IN  SelectSeq(all, LAMBDA key :
            \E cat \in cats : EnvPivotCell(rows, key.Country, key.ISO3, key.Year, cat).kind # "na")

\* The columns of the pivot table, sorted: an expenditure_id with no value at all
\* is no column.
EnvPivotColumns(rows, labels) ==
    LET index == EnvPivotIndex(rows, labels)
    IN  SortNames({cat \in {rows[i].CTS_Name : i \in 1..Len(rows)} \ {NONE} :
            \E i \in 1..Len(index) :
                EnvPivotCell(rows, index[i].Country, index[i].ISO3, index[i].Year, cat).kind # "na"})

\* Step 11: x[env_expenditures_to_sum_up].sum(axis=1): the columns that carry one of
\* the seven names after the renaming, missing values skipped.
EnvRowTotal(rows, key, cats, mapping) ==
    LET summed == SelectSeq(cats, LAMBDA cat :
                     /\ MapName(mapping, cat) \in Range(env_expenditures_to_sum_up)
                     /\ EnvPivotCell(rows, key.Country, key.ISO3, key.Year, cat).kind # "na")
    IN  SumRats([i \in 1..Len(summed) |->
                    EnvPivotCell(rows, key.Country, key.ISO3, key.Year, summed[i]).v])

\* Mutant: the absent names are skipped (as reindex or errors='ignore' would).
EnvMissingColumns_Ignored(renamed) == {}

\* Steps 11 and 12: the names of env_expenditures_to_sum_up that are no column of
\* the renamed table; x[[...]] and drop(columns=[...]) raise KeyError for any.
EnvMissingColumns(renamed) == Range(env_expenditures_to_sum_up) \ Range(renamed)

\* Mutant: step 17 left out.
EnvYearFilter_None(rows) == rows

\* Step 17: the rows whose year lies in 2010..2019.
EnvYearFilter(rows) == SelectSeq(rows, LAMBDA r : r.year <= YearHi /\ r.year >= YearLo)

EnvKeyColumns == <<"country", "ISO_3166_1_alpha_3", "year">>

clean_env_exp_data(df_raw, c_mapping, v_mapping) ==
    IF df_raw = PyNone THEN Raised("AttributeError")                         \* None.drop
    ELSE IF ~df_raw.metadata THEN Raised("KeyError")                         \* step 1
    ELSE IF ~(years_to_drop \subseteq Range(df_raw.columns)) THEN Raised("KeyError") \* step 2
    ELSE IF ~(EnvYearSubset \subseteq Range(df_raw.columns)) THEN Raised("KeyError") \* step 6
    ELSE
      LET labels == SortLabels(Range(df_raw.columns) \ years_to_drop)
          rows == EnvCompleteRows(EnvUnitRows(df_raw))
          index == EnvPivotIndex(rows, labels)
          cats == EnvPivotColumns(rows, labels)
          renamed == [i \in 1..Len(cats) |-> MapName(v_mapping, cats[i])]
          left == SelectSeq(cats, LAMBDA cat :
                      MapName(v_mapping, cat) \notin Range(env_expenditures_to_sum_up))
          step14 == [i \in 1..Len(index) |->
                      [country |-> MapName(c_mapping, index[i].Country),
                       ISO_3166_1_alpha_3 |-> index[i].ISO3,
                       year |-> StripF(index[i].Year),
                       ENV_EXP_TOTAL |-> EnvRowTotal(rows, index[i], cats, v_mapping),
                       other |-> [cat \in Range(left) |->
                           EnvPivotCell(rows, index[i].Country, index[i].ISO3, index[i].Year, cat)]]]
      IN  IF EnvMissingColumns(renamed) # {}
          THEN Raised("KeyError")                                            \* step 11
          ELSE IF \E i \in 1..Len(step14) : ~IsDigits(step14[i].year)
          THEN Raised("ValueError")                                          \* step 16
          ELSE
            LET step16 == [i \in 1..Len(step14) |->
                              [step14[i] EXCEPT !.year = ParseInt(step14[i].year)]]
            IN  [status |-> "ok",
                 columns |-> EnvKeyColumns
                             \o [i \in 1..Len(left) |-> MapName(v_mapping, left[i])]
                             \o <<"ENV_EXP_TOTAL">>,
                 table |-> EnvYearFilter(step16)]

-----------------------------------------------------------------------------
(* data_cleaning.py: clean_env_burden_data *)

\* The default of the parameter indicators_to_remove.
indicators_to_remove == {"Unsafe water, sanitation, and handwashing", "Non-optimal temperature"}

\* Mutant: step 1 is left out, the rows of every sex are kept.
BurdenKeptRows_AnySex(df_raw) ==
    SelectSeq(df_raw.rows, LAMBDA r : r.rei_name \notin indicators_to_remove)

\* Mutant: step 3 is left out, the rows of every indicator are kept.
BurdenKeptRows_AnyIndicator(df_raw) ==
    SelectSeq(df_raw.rows, LAMBDA r : r.sex_name = "Both")

\* Steps 1 and 3: the rows of sex 'Both' whose indicator is not removed.
BurdenKeptRows(df_raw) ==
    SelectSeq(SelectSeq(df_raw.rows, LAMBDA r : r.sex_name = "Both"),
              LAMBDA r : r.rei_name \notin indicators_to_remove)

\* The values the kept rows hold for one (country, year, indicator).
BurdenHits(rows, country, year, rei) ==
    SelectSeq(rows, LAMBDA r :
        /\ r.location_name = country /\ r.year = year /\ r.rei_name = rei
        /\ r.val.kind = "num")

\* Step 5, one cell of the pivot table: pivot_table's default aggfunc is the mean,
\* so several rows of one (country, year, indicator) become one averaged value.
BurdenPivotCell(rows, country, year, rei) ==
    LET hits == BurdenHits(rows, country, year, rei)
    IN  IF Len(hits) = 0 THEN NA
        ELSE [kind |-> "rat", v |-> Mean([i \in 1..Len(hits) |-> hits[i].val.v]), s |-> ""]

\* The years of a set, ascending.
RECURSIVE SortInts(_)
SortInts(S) ==
    IF S = {} THEN <<>>
    ELSE LET m == CHOOSE x \in S : \A y \in S : x <= y IN <<m>> \o SortInts(S \ {m})

\* The index (country, year) of the pivot table, sorted.
BurdenPivotIndex(rows) ==
    LET countries == SortNames({rows[i].location_name : i \in 1..Len(rows)} \ {NONE})
        years == SortInts({rows[i].year : i \in 1..Len(rows)})
        reis == {rows[i].rei_name : i \in 1..Len(rows)}
        nY == Len(years)
        all == [k \in 1..(Len(countries) * nY) |->
                  [country |-> countries[((k - 1) \div nY) + 1], year |-> years[((k - 1) % nY) + 1]]]
    IN  SelectSeq(all, LAMBDA key :
            \E rei \in reis : BurdenPivotCell(rows, key.country, key.year, rei).kind # "na")

\* The columns of the pivot table, sorted.
BurdenPivotColumns(rows) ==
    SortNames({rows[i].rei_name : i \in {j \in 1..Len(rows) :
        rows[j].val.kind = "num" /\ rows[j].location_name # NONE}})

clean_env_burden_data(df_raw, c_mapping, v_mapping) ==
    IF df_raw = PyNone THEN Raised("AttributeError")                 \* None.loc
    ELSE IF ~df_raw.metadata THEN Raised("KeyError")                 \* step 2
    ELSE
      LET rows == BurdenKeptRows(df_raw)
          index == BurdenPivotIndex(rows)
          reis == BurdenPivotColumns(rows)
      IN  [status |-> "ok",
           columns |-> <<"country", "year">>
                       \o [i \in 1..Len(reis) |-> MapName(v_mapping, reis[i])]
                       \o <<"ISO_3166_1_alpha_3">>,
           table |-> [i \in 1..Len(index) |->
               [country |-> MapName(c_mapping, index[i].country),
                year |-> index[i].year,
                ISO_3166_1_alpha_3 |-> get_country_code(MapName(c_mapping, index[i].country)),
                other |-> [rei \in Range(reis) |->
                    BurdenPivotCell(rows, index[i].country, index[i].year, rei)]]]]

\* The four callbacks, by the chart each one draws.
Outputs == {"pie-chart", "corr-chart", "map", "line-chart"}

\* A callback never requested, and a chart never drawn.
NoCallback == [status |-> "none", n_clicks |-> 0, state |-> PyNone]
NoChart == [figure |-> <<>>, title |-> ""]

\* No browser has opened the page.
PageNotOpen ==
    /\ pickers = [country |-> NONE, year |-> 0, corr |-> <<>>, indicator |-> NONE]
    /\ n_clicks = 0
    /\ picks = 0
    /\ callbacks = [o \in Outputs |-> NoCallback]
    /\ charts = [o \in Outputs |-> NoChart]

-----------------------------------------------------------------------------
(* EDA_NoMarkdown.py: the merge *)

MergeKey(r) == <<r.country, r.year, r.ISO_3166_1_alpha_3>>

\* The columns of a cleaned table that are no key column, in order.
ValueColumns(columns) ==
    SelectSeq(columns, LAMBDA c : c \notin {"country", "year", "ISO_3166_1_alpha_3"})

\* Mutant: on=['country', 'year'], the code is no part of the key.
MergeMatches_CountryYear(left, right) ==
    LET n == Len(right)
        all == [k \in 1..(Len(left) * n) |->
                  [l |-> ((k - 1) \div n) + 1, r |-> ((k - 1) % n) + 1]]
    IN  SelectSeq(all, LAMBDA m :
            /\ left[m.l].country = right[m.r].country
            /\ left[m.l].year = right[m.r].year)

\* pd.merge(left, right, on=['country', 'year', 'ISO_3166_1_alpha_3'], how='inner'):
\* the pairs (row of left, row of right) with equal keys, in the order of left; a
\* missing code equals a missing code.
MergeMatches(left, right) ==
    LET n == Len(right)
        all == [k \in 1..(Len(left) * n) |->
                  [l |-> ((k - 1) \div n) + 1, r |-> ((k - 1) % n) + 1]]
    IN  SelectSeq(all, LAMBDA m : MergeKey(left[m.l]) = MergeKey(right[m.r]))

\* EDA_NoMarkdown.py:57: expenditures_merged.
MergeExpenditures(health, env) ==
    LET ms == MergeMatches(health.table, env.table)
    IN  [status |-> "ok",
         columns |-> health.columns \o ValueColumns(env.columns),
         table |-> [i \in 1..Len(ms) |->
            [country |-> health.table[ms[i].l].country,
             year |-> health.table[ms[i].l].year,
             ISO_3166_1_alpha_3 |-> health.table[ms[i].l].ISO_3166_1_alpha_3,
             HEALTH_EXP |-> health.table[ms[i].l].HEALTH_EXP,
             ENV_EXP_TOTAL |-> env.table[ms[i].r].ENV_EXP_TOTAL,
             expenditures |-> env.table[ms[i].r].other]]]

\* EDA_NoMarkdown.py:58: env_burden_data.
MergeBurden(merged, burden) ==
    LET ms == MergeMatches(merged.table, burden.table)
    IN  [status |-> "ok",
         columns |-> merged.columns \o ValueColumns(burden.columns),
         table |-> [i \in 1..Len(ms) |->
            [country |-> merged.table[ms[i].l].country,
             year |-> merged.table[ms[i].l].year,
             ISO_3166_1_alpha_3 |-> merged.table[ms[i].l].ISO_3166_1_alpha_3,
             HEALTH_EXP |-> merged.table[ms[i].l].HEALTH_EXP,
             ENV_EXP_TOTAL |-> merged.table[ms[i].l].ENV_EXP_TOTAL,
             expenditures |-> merged.table[ms[i].l].expenditures,
             indicators |-> burden.table[ms[i].r].other]]]

-----------------------------------------------------------------------------
(* app.py: the data of the dashboard *)

Hundred == 100

\* Mutant: the residual clamped at zero.
OtherShare_Clamped(health, environment) ==
    LET other == RSub(R(Hundred), RAdd(health, environment))
    IN  IF other.n < 0 THEN R(0) ELSE other

\* app.py:36: df_subset['Other'].
OtherShare(health, environment) == RSub(R(Hundred), RAdd(health, environment))

\* app.py:28,35: df_global's columns country, year, 'Health Expenses' and
\* 'Environment Expenses' (the columns the pattern country|year|Health|Environment
\* selects), with the column 'Other' of line 36.
ExpenditureSubset(dataset) ==
    [i \in 1..Len(dataset) |->
        [country |-> dataset[i].country,
         year |-> dataset[i].year,
         Health |-> dataset[i].HEALTH_EXP,
         Environment |-> dataset[i].ENV_EXP_TOTAL,
         Other |-> OtherShare(dataset[i].HEALTH_EXP, dataset[i].ENV_EXP_TOTAL)]]

\* app.py:37,38: melt(id_vars=['country', 'year']): the rows of 'Health', then of
\* 'Environment', then of 'Other'.
MeltExpenditures(subset) ==
    LET n == Len(subset)
        types == <<"Health", "Environment", "Other">>
    IN  [k \in 1..(3 * n) |->
            LET r == subset[((k - 1) % n) + 1]
                t == types[((k - 1) \div n) + 1]
            IN  [country |-> r.country, year |-> r.year, exp_type |-> t,
                 exp_value |-> CASE t = "Health" -> r.Health
                                 [] t = "Environment" -> r.Environment
                                 [] OTHER -> r.Other]]

-----------------------------------------------------------------------------
(* The script EDA_NoMarkdown.py: one cleaner call *)

ProcessedFiles == {"health_exp_clean.csv", "env_exp_clean.csv", "env_burden_clean.csv"}

NotRun == [status |-> "not run", table |-> <<>>, columns |-> <<>>]

\* Mutant: to_csv(..., mode='a'), the table is appended to the file that is there.
Checkpoint_Append(files, name, res) ==
    IF res.status = "ok"
    THEN [files EXCEPT ![name] = [exists |-> TRUE, content |-> files[name].content \o res.table,
                                  columns |-> res.columns]]
    ELSE files

\* to_csv is reached only when the pipeline expression did not raise.
Checkpoint(files, name, res) ==
    IF res.status = "ok" THEN [files EXCEPT ![name] = Written(res)] ELSE files

\* Mutant: the script goes on to its next step after an exception.
After_Continue(res, next) == next

\* An exception ends the script.
After(res, next) == IF res.status = "ok" THEN next ELSE "failed"

\* The print that follows to_csv in each cleaner, and the one after the merge.
CleanedMessage == "Pipeline successfully completed and cleaned data saved to ../data/processed."
MergedMessage == "Data merged and saved succesfully"
Printed(out, res, message) == IF res.status = "ok" THEN Append(out, message) ELSE out

\* No answer from the server.
NoResponse == [status_code |-> 0, content |-> <<>>]

\* A file of ../data/raw that holds a table, and the place of one that is not there.
NoRawFile == [exists |-> FALSE, table |-> PyNone]
RawFile(table) == [exists |-> TRUE, table |-> table]

\* A file that is there and that the user running the script may not read.
LockedRawFile == [exists |-> TRUE, table |-> PyNone]

\* e.strerror of the OSError that shutil.copy raises for a file, "" for none.
StrError(file) ==
    IF ~file.exists THEN "No such file or directory"
    ELSE IF file.table = PyNone THEN "Permission denied"
    ELSE ""

\* ../data/raw with no file, as the cleaners and the merge see it when they are
\* called on tables at hand: the workbook of the World Bank, the ZIP archives of
\* the IHME (by number), the CSV file of the IMF.
EmptyRawFolder == [health |-> NoRawFile, archives |-> {}, env |-> NoRawFile]
NothingDelivered ==
    /\ response = NoResponse
    /\ raw_folder = EmptyRawFolder
    /\ interim_folder = {}
    /\ num_zip_archives = 2
    /\ console = <<>>
    /\ runs = 0
    /\ requests_sent = 0

\* Mutant: step 1 drops the footer row in place (inplace=True).
CleanHealthExp_InPlace ==
    /\ pc = "clean_health"
    /\ LET res == clean_health_exp_data(health_exp_raw, country_name_mapping)
       IN  /\ health_exp_clean' = res
           /\ processed' = Checkpoint(processed, "health_exp_clean.csv", res)
           /\ pc' = After(res, "fetch_env")
           /\ console' = Printed(console, res, CleanedMessage)
    /\ runs' = runs + 1
    /\ health_exp_raw' = IF health_exp_raw # PyNone /\ Len(health_exp_raw.rows) > 0
                         THEN [health_exp_raw EXCEPT
                                  !.rows = SubSeq(health_exp_raw.rows, 1, Len(health_exp_raw.rows) - 1)]
                         ELSE health_exp_raw
    /\ UNCHANGED <<env_exp_raw, env_burden_raw, country_name_mapping,
                   variable_name_mapping, env_exp_clean, env_burden_clean,
                   env_burden_data, df_global, df_exp,
                   response, raw_folder, interim_folder, num_zip_archives,
                   requests_sent,
                   pickers, n_clicks, picks, callbacks, charts>>

\* EDA_NoMarkdown.py:38
CleanHealthExp ==
    /\ pc = "clean_health"
    /\ LET res == clean_health_exp_data(health_exp_raw, country_name_mapping)
       IN  /\ health_exp_clean' = res
           /\ processed' = Checkpoint(processed, "health_exp_clean.csv", res)
           /\ pc' = After(res, "fetch_env")
           /\ console' = Printed(console, res, CleanedMessage)
    /\ runs' = runs + 1
    /\ UNCHANGED <<health_exp_raw, env_exp_raw, env_burden_raw, country_name_mapping,
                   variable_name_mapping, env_exp_clean, env_burden_clean,
                   env_burden_data, df_global, df_exp,
                   response, raw_folder, interim_folder, num_zip_archives,
                   requests_sent,
                   pickers, n_clicks, picks, callbacks, charts>>

\* EDA_NoMarkdown.py:45
CleanEnvExp ==
    /\ pc = "clean_env"
    /\ LET res == clean_env_exp_data(env_exp_raw, country_name_mapping, variable_name_mapping)
       IN  /\ env_exp_clean' = res
           /\ processed' = Checkpoint(processed, "env_exp_clean.csv", res)
           /\ pc' = After(res, "load_burden")
           /\ console' = Printed(console, res, CleanedMessage)
    /\ runs' = runs + 1
    /\ UNCHANGED <<health_exp_raw, env_exp_raw, env_burden_raw, country_name_mapping,
                   variable_name_mapping, health_exp_clean, env_burden_clean,
                   env_burden_data, df_global, df_exp,
                   response, raw_folder, interim_folder, num_zip_archives,
                   requests_sent,
                   pickers, n_clicks, picks, callbacks, charts>>

\* EDA_NoMarkdown.py:52
CleanEnvBurden ==
    /\ pc = "clean_burden"
    /\ LET res == clean_env_burden_data(env_burden_raw, country_name_mapping, variable_name_mapping)
       IN  /\ env_burden_clean' = res
           /\ processed' = Checkpoint(processed, "env_burden_clean.csv", res)
           /\ pc' = After(res, "merge")
           /\ console' = Printed(console, res, CleanedMessage)
    /\ runs' = runs + 1
    /\ UNCHANGED <<health_exp_raw, env_exp_raw, env_burden_raw, country_name_mapping,
                   variable_name_mapping, health_exp_clean, env_exp_clean,
                   env_burden_data, df_global, df_exp,
                   response, raw_folder, interim_folder, num_zip_archives,
                   requests_sent,
                   pickers, n_clicks, picks, callbacks, charts>>

\* EDA_NoMarkdown.py:57-59
Merge ==
    /\ pc = "merge"
    /\ env_burden_data' =
          MergeBurden(MergeExpenditures(health_exp_clean, env_exp_clean), env_burden_clean)
    /\ pc' = "done"
    /\ console' = Append(console, MergedMessage)
    /\ UNCHANGED <<health_exp_raw, env_exp_raw, env_burden_raw, country_name_mapping,
                   variable_name_mapping, health_exp_clean, env_exp_clean, env_burden_clean,
                   processed, df_global, df_exp,
                   response, raw_folder, interim_folder, num_zip_archives, runs,
                   requests_sent,
                   pickers, n_clicks, picks, callbacks, charts>>

\* app.py:16-38
LoadDashboardData ==
    /\ pc = "app_load"
    /\ df_global' = env_burden_data.table
    /\ df_exp' = MeltExpenditures(ExpenditureSubset(env_burden_data.table))
    /\ pc' = "app_ready"
    /\ UNCHANGED <<health_exp_raw, env_exp_raw, env_burden_raw, country_name_mapping,
                   variable_name_mapping, health_exp_clean, env_exp_clean, env_burden_clean,
                   processed, env_burden_data,
                   response, raw_folder, interim_folder, num_zip_archives, console, runs,
                   requests_sent,
                   pickers, n_clicks, picks, callbacks, charts>>

-----------------------------------------------------------------------------
(* data_delivery.py: the loaders, as EDA_NoMarkdown.py calls them *)

\* A file name: what it starts with, the number that tells the downloads of one
\* source apart, and its extension.
FileName(stem, id, ext) == [stem |-> stem, id |-> id, ext |-> ext]

HealthRawName == FileName("Data_Extract_FromWorld Development Indicators", 0, "xlsx")
HealthInterimName == FileName("WorldBank-DataBank_HealthExpenditure_Global_1990_2022", 0, "xlsx")
EnvRawName == FileName("IMF-CCD_EnvironmentalExpenditures_Global_1995_2022", 0, "csv")
BurdenStem == "IHME-GBD_2019_DATA"
LoadedMessage == "File renamed and loaded successfully."
ErrorMessage(strerror) == "Error: " \o strerror
FetchedMessage == "Data fetched, saved and loaded successfully."
FetchFailedMessage == "Failed to retrieve data from the URL."
BurdenLoadedMessage == "Data loaded successfully."

StatusOk == 200

\* Mutant: an OSError is passed over in silence and a table without data rows
\* is returned.
LoadHealthExp_Swallowed ==
    /\ pc = "load_health"
    /\ IF StrError(raw_folder.health) = ""
       THEN /\ interim_folder' = interim_folder \cup {HealthInterimName}
            /\ health_exp_raw' = raw_folder.health.table
            /\ console' = Append(console, LoadedMessage)
       ELSE /\ interim_folder' = interim_folder
            /\ health_exp_raw' =
                  LET cols == [i \in 1..(YearHi - YearLo + 1) |-> YearLabel(YearLo + i - 1)]
                  IN  [columns |-> cols, unnamed11 |-> TRUE,
                       rows |-> <<[country |-> NONE, cells |-> [y \in Range(cols) |-> NA]]>>]
            /\ console' = console
    /\ pc' = "clean_health"
    /\ UNCHANGED <<env_exp_raw, env_burden_raw, country_name_mapping, variable_name_mapping,
                   health_exp_clean, env_exp_clean, env_burden_clean, processed,
                   env_burden_data, df_global, df_exp,
                   response, raw_folder, num_zip_archives, runs,
                   requests_sent,
                   pickers, n_clicks, picks, callbacks, charts>>

\* load_health_exp_data: the workbook is copied to ../data/interim and read; an
\* OSError is printed and the function ends without a return value.
\* EDA_NoMarkdown.py:35
LoadHealthExp ==
    /\ pc = "load_health"
    /\ IF StrError(raw_folder.health) = ""
       THEN /\ interim_folder' = interim_folder \cup {HealthInterimName}
            /\ health_exp_raw' = raw_folder.health.table
            /\ console' = Append(console, LoadedMessage)
       ELSE /\ interim_folder' = interim_folder
            /\ health_exp_raw' = PyNone
            /\ console' = Append(console, ErrorMessage(StrError(raw_folder.health)))
    /\ pc' = "clean_health"
    /\ UNCHANGED <<env_exp_raw, env_burden_raw, country_name_mapping, variable_name_mapping,
                   health_exp_clean, env_exp_clean, env_burden_clean, processed,
                   env_burden_data, df_global, df_exp,
                   response, raw_folder, num_zip_archives, runs,
                   requests_sent,
                   pickers, n_clicks, picks, callbacks, charts>>

\* Mutant: the status is not looked at; whatever came is saved and read, and an
\* error page reads as a table without rows.
FetchEnvExp_StatusIgnored ==
    /\ pc = "fetch_env"
    /\ requests_sent' = requests_sent + 1
    /\ IF response = NoResponse
       THEN /\ pc' = "failed"
            /\ UNCHANGED <<env_exp_raw, raw_folder, console>>
       ELSE LET df_raw == IF response.status_code = StatusOk THEN response.content
                          ELSE [columns |-> <<>>, metadata |-> FALSE, rows |-> <<>>]
            IN  /\ raw_folder' = [raw_folder EXCEPT !.env = RawFile(df_raw)]
                /\ env_exp_raw' = df_raw
                /\ console' = Append(console, FetchedMessage)
                /\ pc' = "clean_env"
    /\ UNCHANGED <<health_exp_raw, env_burden_raw, country_name_mapping, variable_name_mapping,
                   health_exp_clean, env_exp_clean, env_burden_clean, processed,
                   env_burden_data, df_global, df_exp,
                   response, interim_folder, num_zip_archives, runs,
                   pickers, n_clicks, picks, callbacks, charts>>

\* Mutant: a request that did not succeed is sent a second time.
FetchEnvExp_Retry ==
    /\ pc = "fetch_env"
    /\ requests_sent' = requests_sent + (IF response # NoResponse /\ response.status_code = StatusOk
                                          THEN 1 ELSE 2)
    /\ IF response = NoResponse
       THEN /\ pc' = "failed"
            /\ UNCHANGED <<env_exp_raw, raw_folder, console>>
       ELSE IF response.status_code = StatusOk
       THEN /\ raw_folder' = [raw_folder EXCEPT !.env = RawFile(response.content)]
            /\ env_exp_raw' = response.content
            /\ console' = Append(console, FetchedMessage)
            /\ pc' = "clean_env"
       ELSE /\ env_exp_raw' = PyNone
            /\ console' = Append(console, FetchFailedMessage)
            /\ pc' = "clean_env"
            /\ UNCHANGED raw_folder
    /\ UNCHANGED <<health_exp_raw, env_burden_raw, country_name_mapping, variable_name_mapping,
                   health_exp_clean, env_exp_clean, env_burden_clean, processed,
                   env_burden_data, df_global, df_exp,
                   response, interim_folder, num_zip_archives, runs,
                   pickers, n_clicks, picks, callbacks, charts>>

\* fetch_env_exp_data: on status 200 the content is saved to ../data/raw and read
\* back; on any other status a message is printed and nothing is returned; when
\* no answer comes, requests.get raises and the script ends.
\* EDA_NoMarkdown.py:42
FetchEnvExp ==
    /\ pc = "fetch_env"
    /\ requests_sent' = requests_sent + 1                                    \* line 138
    /\ IF response = NoResponse
       THEN /\ pc' = "failed"
            /\ UNCHANGED <<env_exp_raw, raw_folder, console>>
       ELSE IF response.status_code = StatusOk
       THEN /\ raw_folder' = [raw_folder EXCEPT !.env = RawFile(response.content)]
            /\ env_exp_raw' = response.content
            /\ console' = Append(console, FetchedMessage)
            /\ pc' = "clean_env"
       ELSE /\ env_exp_raw' = PyNone
            /\ console' = Append(console, FetchFailedMessage)
            /\ pc' = "clean_env"
            /\ UNCHANGED raw_folder
    /\ UNCHANGED <<health_exp_raw, env_burden_raw, country_name_mapping, variable_name_mapping,
                   health_exp_clean, env_exp_clean, env_burden_clean, processed,
                   env_burden_data, df_global, df_exp,
                   response, interim_folder, num_zip_archives, runs,
                   pickers, n_clicks, picks, callbacks, charts>>

\* os.listdir('../data/raw'): the names of the files that are there.
RawNames(folder) ==
    {FileName(BurdenStem, a, "zip") : a \in folder.archives}
    \cup (IF folder.health.exists THEN {HealthRawName} ELSE {})
    \cup (IF folder.env.exists THEN {EnvRawName} ELSE {})

\* The tests of data_delivery.py:48 and :56 on a file name.
IsBurdenArchive(f) == f.ext = "zip" /\ f.stem = BurdenStem
IsBurdenCsv(f) == f.ext = "csv" /\ f.stem = BurdenStem

\* The one CSV file an archive holds, and the rows of that file.
ArchiveCsv(f) == FileName(f.stem, f.id, "csv")
ArchiveRows(a) ==
    <<[location_name |-> "Bahamas", year |-> 2010, sex_name |-> "Both",
       rei_name |-> IF a % 2 = 1 THEN "High temperature" ELSE "Unsafe water source",
       val |-> Num(3 * a + 1)],
      [location_name |-> "Bahamas", year |-> 2010, sex_name |-> "Male",
       rei_name |-> "High temperature", val |-> Num(3 * a + 100)]>>

\* The sequences of k different members of S: what the first k names of a
\* listing of S can be, os.listdir giving its names in arbitrary order.
Listings(S, k) == {q \in [1..k -> S] : \A i, j \in 1..k : q[i] = q[j] => i = j}

\* data_delivery.py:53, the files the inner loop goes through after archive f
\* was extracted: every matching CSV file of ../data/interim.
CsvToRead(extracted, f) == {x \in extracted : IsBurdenCsv(x)}

\* The loops of load_env_burden_data: todo are the names of ../data/raw not yet
\* listed, loaded the CSV files read so far (num_files_processed is their number).
\* The result is every outcome a listing order can give.
RECURSIVE ListDirLoads(_, _, _, _)
ListDirLoads(todo, interim, loaded, n) ==
    IF todo = {} \/ Len(loaded) >= n
    THEN {[loaded |-> loaded, interim |-> interim]}
    ELSE UNION {
        IF IsBurdenArchive(f)
        THEN LET extracted == interim \cup {ArchiveCsv(f)}
                 csvs == CsvToRead(extracted, f)
                 left == n - Len(loaded)
                 take == IF Cardinality(csvs) < left THEN Cardinality(csvs) ELSE left
             IN  UNION {ListDirLoads(todo \ {f}, extracted, loaded \o q, n) : q \in Listings(csvs, take)}
        ELSE ListDirLoads(todo \ {f}, interim, loaded, n)
        : f \in todo}

\* pd.concat(df_append, ignore_index=True) of the files read.
RECURSIVE ConcatRows(_)
ConcatRows(loaded) ==
    IF loaded = <<>> THEN <<>> ELSE ArchiveRows(Head(loaded).id) \o ConcatRows(Tail(loaded))

\* load_env_burden_data; pd.concat raises ValueError when nothing was read.
\* EDA_NoMarkdown.py:49
LoadEnvBurden ==
    /\ pc = "load_burden"
    /\ \E out \in ListDirLoads(RawNames(raw_folder), interim_folder, <<>>, num_zip_archives) :
          /\ interim_folder' = out.interim
          /\ console' = Append(console, BurdenLoadedMessage)
          /\ IF out.loaded = <<>>
             THEN pc' = "failed" /\ UNCHANGED env_burden_raw
             ELSE /\ env_burden_raw' = [metadata |-> TRUE, columns |-> <<>>,
                                        rows |-> ConcatRows(out.loaded)]
                  /\ pc' = "clean_burden"
    /\ UNCHANGED <<health_exp_raw, env_exp_raw, country_name_mapping, variable_name_mapping,
                   health_exp_clean, env_exp_clean, env_burden_clean, processed,
                   env_burden_data, df_global, df_exp,
                   response, raw_folder, num_zip_archives, runs,
                   requests_sent,
                   pickers, n_clicks, picks, callbacks, charts>>

-----------------------------------------------------------------------------
(* app.py: the page, the apply button and the four callbacks *)

\* app.py:18-27: the names the dashboard gives the columns of the dataset.
dict_feature_mapping ==
    ("HEALTH_EXP" :> "Health Expenses") @@ ("ENV_EXP_TOTAL" :> "Environment Expenses")
    @@ ("DALY_HIGH_TEMP" :> "High Temperature")
    @@ ("DALY_UNSAFE_WATER_SOURCE" :> "Unsafe Water Sources")
    @@ ("ISO_3166_1_alpha_3" :> "iso3_code")

\* The name under which a row of the model keeps the values of an indicator
\* column of the dashboard: the name of the indicator in the raw extract.
IndicatorKey ==
    ("High Temperature" :> "High temperature")
    @@ ("Unsafe Water Sources" :> "Unsafe water source")

\* The values of a column in order of first appearance: Series.unique().
RECURSIVE Unique(_)
Unique(seq) ==
    IF Len(seq) = 0 THEN <<>>
    ELSE LET init == Unique(SubSeq(seq, 1, Len(seq) - 1))
             last == seq[Len(seq)]
         IN  IF last \in Range(init) THEN init ELSE Append(init, last)

\* app.py:30: the renamed columns that match none of iso, country, year, Health
\* and Environment.
vars_daly ==
    LET renamed == [i \in 1..Len(env_burden_data.columns) |->
                       MapName(dict_feature_mapping, env_burden_data.columns[i])]
    IN  SelectSeq(renamed, LAMBDA c :
            c \notin {"country", "year", "iso3_code", "Health Expenses", "Environment Expenses"})

\* app.py:31,32
vars_country == Unique([i \in 1..Len(df_global) |-> df_global[i].country])
vars_year == Unique([i \in 1..Len(df_global) |-> df_global[i].year])

\* The cell a row of df_global holds in an indicator column.
IndicatorCell(row, indicator) == row.indicators[IndicatorKey[indicator]]

\* What a callback answers when its function raised: the server answers with an
\* error status and the browser leaves the chart and the title as they are.
CallbackError == [status |-> "error", figure |-> <<>>, title |-> ""]
Drawn(figure, title) == [status |-> "ok", figure |-> figure, title |-> title]

\* app.py:222-245. A cleared country picker sends None, and line 243 adds it to
\* a string: TypeError.
update_pie_chart(country, year) ==
    LET filtered_df == SelectSeq(df_exp, LAMBDA r : r.country = country /\ r.year = year)
    IN  IF country = NONE THEN CallbackError
        ELSE Drawn([i \in 1..Len(filtered_df) |->
                       [names |-> filtered_df[i].exp_type, values |-> filtered_df[i].exp_value]],
                   "Expenditures (% GDP) in " \o ToString(year) \o " for " \o country)

\* app.py:253-289. The figure is the correlation of the expenditure columns (x)
\* with the columns picked (y) over the rows of the country: it is kept as the
\* columns and the rows it is computed from. None for the country: TypeError at
\* line 287 at the latest.
update_heatmap(country, corr_pick) ==
    LET df_country == SelectSeq(df_global, LAMBDA r : r.country = country)
    IN  IF country = NONE THEN CallbackError
        ELSE Drawn(<<[x |-> <<"Health Expenses", "Environment Expenses">>,
                      y |-> corr_pick,
                      rows |-> [i \in 1..Len(df_country) |->
                          [Health |-> df_country[i].HEALTH_EXP,
                           Environment |-> df_country[i].ENV_EXP_TOTAL,
                           picked |-> [k \in 1..Len(corr_pick) |->
                                          IndicatorCell(df_country[i], corr_pick[k])]]]]>>,
                   "Correlation of DALY indicators for " \o country)

\* app.py:297-329. A cleared indicator picker sends None, which is no column of
\* year_df: KeyError at line 299. A missing value is coloured 'red' (line 302).
update_map(year, indicator) ==
    LET year_df == SelectSeq(df_global, LAMBDA r : r.year = year)
    IN  IF indicator = NONE THEN CallbackError
        ELSE Drawn([i \in 1..Len(year_df) |->
                       [locations |-> year_df[i].ISO_3166_1_alpha_3,
                        hover_name |-> year_df[i].country,
                        color |-> IF IndicatorCell(year_df[i], indicator).kind = "na"
                                  THEN [kind |-> "str", v |-> R(0), s |-> "red"]
                                  ELSE IndicatorCell(year_df[i], indicator)]],
                   "Global Variation of " \o indicator \o " DALYs in " \o ToString(year))

\* app.py:338-366. KeyError at line 340 for a cleared indicator picker,
\* TypeError at line 364 for a cleared country picker.
update_line(country, indicator) ==
    LET country_df == SelectSeq(df_global, LAMBDA r : r.country = country)
    IN  IF indicator = NONE \/ country = NONE THEN CallbackError
        ELSE Drawn([i \in 1..Len(country_df) |->
                       [x |-> country_df[i].year, y |-> IndicatorCell(country_df[i], indicator)]],
                   "Annual Variation of " \o indicator \o " DALYs for " \o country)

\* app.py:219-221, 250-252, 294-296, 334-336: the State values a callback is
\* sent, read from the dropdowns when the request is made.
StateOf(o, values) ==
    CASE o = "pie-chart" -> [country |-> values.country, year |-> values.year]
      [] o = "corr-chart" -> [country |-> values.country, corr |-> values.corr]
      [] o = "map" -> [year |-> values.year, indicator |-> values.indicator]
      [] OTHER -> [country |-> values.country, indicator |-> values.indicator]

\* The function a callback request runs.
Answer(o, state) ==
    CASE o = "pie-chart" -> update_pie_chart(state.country, state.year)
      [] o = "corr-chart" -> update_heatmap(state.country, state.corr)
      [] o = "map" -> update_map(state.year, state.indicator)
      [] OTHER -> update_line(state.country, state.indicator)

\* The smallest year of the dataset: min(vars_year), app.py:103.
MinYear == CHOOSE y \in Range(vars_year) : \A z \in Range(vars_year) : y <= z

\* app.py:57-210, 369-370: the layout is built and served, the browser opens
\* the page and requests every callback once with the values of the layout.
\* min(vars_year) of an empty dataset raises ValueError (line 75) and the app
\* does not start.
ServeLayout ==
    /\ pc = "app_ready"
    /\ IF Len(df_global) = 0
       THEN /\ pc' = "failed"
            /\ UNCHANGED <<pickers, callbacks>>
       ELSE LET values == [country |-> vars_country[1], year |-> MinYear,
                           corr |-> vars_daly, indicator |-> vars_daly[1]]
            IN  /\ pickers' = values
                /\ callbacks' = [o \in Outputs |->
                      [status |-> "requested", n_clicks |-> 0, state |-> StateOf(o, values)]]
                /\ pc' = "app_open"
    /\ UNCHANGED <<health_exp_raw, env_exp_raw, env_burden_raw, country_name_mapping,
                   variable_name_mapping, health_exp_clean, env_exp_clean, env_burden_clean,
                   processed, env_burden_data, df_global, df_exp,
                   response, raw_folder, interim_folder, num_zip_archives, console, runs,
                   requests_sent, n_clicks, picks, charts>>

MaxPicks == 2
MaxClicks == 2

\* The values a dropdown offers; the x of a single-value dropdown clears it to
\* None. The years and the indicators for the correlation are taken from the
\* options only.
Options ==
    [country |-> Range(vars_country) \cup {NONE},
     year |-> Range(vars_year),
     corr |-> {vars_daly, <<vars_daly[1]>>},
     indicator |-> Range(vars_daly) \cup {NONE}]

\* The user picks another value in one of the dropdowns. The dropdowns are State
\* of the callbacks and Input of none: no callback is requested.
SelectValue ==
    /\ pc = "app_open"
    /\ picks < MaxPicks
    /\ \E id \in DOMAIN pickers : \E v \in Options[id] :
          /\ v # pickers[id]
          /\ pickers' = [pickers EXCEPT ![id] = v]
    /\ picks' = picks + 1
    /\ UNCHANGED <<pc, health_exp_raw, env_exp_raw, env_burden_raw, country_name_mapping,
                   variable_name_mapping, health_exp_clean, env_exp_clean, env_burden_clean,
                   processed, env_burden_data, df_global, df_exp,
                   response, raw_folder, interim_folder, num_zip_archives, console, runs,
                   requests_sent, n_clicks, callbacks, charts>>

\* The user clicks 'Apply Selection': n_clicks is the Input of the four
\* callbacks, each is requested with the values the dropdowns hold now; a
\* request of an earlier click that is not answered yet is given up.
ClickApply ==
    /\ pc = "app_open"
    /\ n_clicks < MaxClicks
    /\ n_clicks' = n_clicks + 1
    /\ callbacks' = [o \in Outputs |->
          [status |-> "requested", n_clicks |-> n_clicks + 1, state |-> StateOf(o, pickers)]]
    /\ UNCHANGED <<pc, health_exp_raw, env_exp_raw, env_burden_raw, country_name_mapping,
                   variable_name_mapping, health_exp_clean, env_exp_clean, env_burden_clean,
                   processed, env_burden_data, df_global, df_exp,
                   response, raw_folder, interim_folder, num_zip_archives, console, runs,
                   requests_sent, pickers, picks, charts>>

\* The server answers the request of one callback: the chart and its title are
\* replaced by what the function returned, or left when it raised.
Respond(o) ==
    /\ pc = "app_open"
    /\ callbacks[o].status = "requested"
    /\ LET res == Answer(o, callbacks[o].state)
       IN  /\ callbacks' = [callbacks EXCEPT ![o].status = IF res.status = "ok" THEN "done" ELSE "error"]
           /\ charts' = IF res.status = "ok"
                        THEN [charts EXCEPT ![o] = [figure |-> res.figure, title |-> res.title]]
                        ELSE charts
    /\ UNCHANGED <<pc, health_exp_raw, env_exp_raw, env_burden_raw, country_name_mapping,
                   variable_name_mapping, health_exp_clean, env_exp_clean, env_burden_clean,
                   processed, env_burden_data, df_global, df_exp,
                   response, raw_folder, interim_folder, num_zip_archives, console, runs,
                   requests_sent, pickers, n_clicks, picks>>

-----------------------------------------------------------------------------
(* Inputs: raw health expenditure extracts *)

MaxHealthRows == 2

SeqsUpTo(S, n) == UNION {[1..k -> S] : k \in 0..n}

NoTable == [columns |-> <<>>, rows |-> <<>>]

HealthCountries == {"Bahamas, The", "Bahamas"}

\* The country-name dicts tried: none, and the World Bank form shortened to a
\* name that the extracts hold as well.
CountryMappings == {EmptyMapping, ("Bahamas, The" :> "Bahamas")}

\* Where a raw row has its gap, and what stands there: no gap, or one cell that
\* is empty or holds a placeholder, inside or just outside 2010..2019.
NoGap == <<<<>>, NA>>
HealthGaps ==
    {NoGap,
     <<YearLabel(2010), Txt("..")>>,
     <<YearLabel(2015), Txt("...")>>,
     <<YearLabel(2019), NA>>,
     <<YearLabel(2020), NA>>}

YearColumns(lo, hi) == [i \in 1..(hi - lo + 1) |-> YearLabel(lo + i - 1)]

\* The year columns and the stray column of the extract: as downloaded, with the
\* neighbouring years, with a year column missing, without the stray column.
HealthShapes ==
    {[columns |-> YearColumns(2010, 2019), unnamed11 |-> TRUE],
     [columns |-> YearColumns(2009, 2020), unnamed11 |-> TRUE],
     [columns |-> YearColumns(2010, 2014) \o YearColumns(2016, 2019), unnamed11 |-> TRUE],
     [columns |-> YearColumns(2010, 2019), unnamed11 |-> FALSE]}

HealthValue(c, y) ==
    (CASE c = "Chad" -> 30 [] c = "Bahamas" -> 60 [] OTHER -> 90) + (ParseInt(y) % 10)

HealthRow(cols, c, gap) ==
    [country |-> c,
     cells |-> [y \in Range(cols) |-> IF y = gap[1] THEN gap[2] ELSE Num(HealthValue(c, y))]]

\* The last row of the sheet: the source note, or one more data row.
HealthLastRows(cols) ==
    {[country |-> "Data from database: World Development Indicators",
      cells |-> [y \in Range(cols) |-> NA]],
     HealthRow(cols, "Chad", NoGap)}

HealthRaws ==
    {[columns |-> sh.columns, unnamed11 |-> sh.unnamed11,
      rows |-> [i \in 1..Len(ps) |-> HealthRow(sh.columns, ps[i][1], ps[i][2])] \o <<last>>] :
        <<sh, ps, last>> \in
            {<<sh, ps, last>> \in
                HealthShapes \X SeqsUpTo(HealthCountries \X HealthGaps, MaxHealthRows)
                    \X UNION {HealthLastRows(s.columns) : s \in HealthShapes} :
                last \in HealthLastRows(sh.columns)}}
    \cup {[columns |-> YearColumns(2010, 2019), unnamed11 |-> TRUE, rows |-> <<>>]}

InitHealth ==
    /\ pc = "clean_health"
    /\ health_exp_raw \in HealthRaws
    /\ country_name_mapping \in CountryMappings
    /\ env_exp_raw = NoTable
    /\ env_burden_raw = NoTable
    /\ variable_name_mapping = EmptyMapping
    /\ health_exp_clean = NotRun
    /\ env_exp_clean = NotRun
    /\ env_burden_clean = NotRun
    /\ processed = [f \in ProcessedFiles |-> NoFile]
    /\ env_burden_data = NotRun
    /\ df_global = <<>>
    /\ df_exp = <<>>
    /\ NothingDelivered
    /\ PageNotOpen

SpecHealth == InitHealth /\ [][CleanHealthExp]_vars

-----------------------------------------------------------------------------
(* Inputs: raw environmental expenditure extracts *)

MaxEnvExtraRows == 2

\* The CTS_Name of the seven sub-categories, in the order of
\* env_expenditures_to_sum_up, and one category that is none of them.
SevenCategories ==
    <<"Expenditure on environment protection",
      "Expenditure on biodiversity & landscape protection",
      "Expenditure on environmental protection n.e.c.",
      "Expenditure on environmental protection R&D",
      "Expenditure on pollution abatement",
      "Expenditure on waste management",
      "Expenditure on waste water management">>
WasteCategory == "Expenditure on waste management"
ExtraCategory == "Expenditure on climate change adaptation"

SevenMapping == [c \in Range(SevenCategories) |->
    env_expenditures_to_sum_up[CHOOSE i \in 1..7 : SevenCategories[i] = c]]

\* The variable-name dicts tried: the seven categories named; the waste category
\* left out; a further category given the name of one of the seven.
VariableMappings ==
    {SevenMapping,
     [c \in Range(SevenCategories) \ {WasteCategory} |-> SevenMapping[c]],
     SevenMapping @@ (ExtraCategory :> "ENV_EXP_WASTE")}

EnvCountries == {"Bahamas, The", "Chad"}
EnvIso(c) == IF c = "Chad" THEN "TCD" ELSE "BHS"

\* The country-name dicts tried for this extract: none, and two names shortened
\* to the same one.
EnvCountryMappings ==
    {EmptyMapping, ("Bahamas, The" :> "Bahamas") @@ ("Chad" :> "Bahamas")}

EnvColumns(lo, hi) == [i \in 1..(hi - lo + 1) |-> FLabel(lo + i - 1)]

EnvGaps == {NoGap, <<FLabel(2015), NA>>}

\* A raw row: a value in every year column but where its gap is. tag tells the
\* rows of one (country, category, unit) apart by their values.
EnvRow(cols, c, cat, unit, gap, tag) ==
    [Country |-> c, ISO3 |-> EnvIso(c), CTS_Name |-> cat, Unit |-> unit,
     cells |-> [y \in Range(cols) |->
        IF y = gap[1] THEN gap[2]
        ELSE Num((IF unit = "Percent of GDP" THEN 0 ELSE 1000)
                 + 10 * (CHOOSE i \in 1..Len(SortedNames) : SortedNames[i] = cat)
                 + (ParseInt(StripF(y)) % 10) + tag)]]

\* The rows every extract of the model starts from: all seven sub-categories of
\* one country, the seven but waste, or none.
EnvBases(cols) ==
    {[i \in 1..7 |-> EnvRow(cols, "Bahamas, The", SevenCategories[i], "Percent of GDP", NoGap, 0)],
     [i \in 1..6 |-> EnvRow(cols, "Bahamas, The",
                            SelectSeq(SevenCategories, LAMBDA c : c # WasteCategory)[i],
                            "Percent of GDP", NoGap, 0)],
     <<>>}

\* The rows an extract may hold besides: a waste row of either country as
\* percent of GDP, complete or with a gap; a waste row in another unit and a row
\* of the further category for the country of the base rows.
EnvExtraRows(cols) ==
    {EnvRow(cols, c, cat, unit, gap, 1) :
        <<c, cat, unit, gap>> \in
            {q \in EnvCountries \X {WasteCategory, ExtraCategory}
                    \X {"Percent of GDP", "Domestic Currency"} \X EnvGaps :
                /\ q[4] # NoGap => (q[2] = WasteCategory /\ q[3] = "Percent of GDP")
                /\ q[2] = ExtraCategory => q[3] = "Percent of GDP"
                /\ q[1] = "Chad" => (q[2] = WasteCategory /\ q[3] = "Percent of GDP")}}

EnvRawsOver(cols, n) ==
    {[columns |-> cols, metadata |-> TRUE, rows |-> base \o extra] :
        <<base, extra>> \in EnvBases(cols) \X SeqsUpTo(EnvExtraRows(cols), n)}

\* The extract as published (F1995..F2022) and with one more year; with a year
\* column or the metadata columns missing.
EnvRaws ==
    EnvRawsOver(EnvColumns(1995, 2022), MaxEnvExtraRows) \cup EnvRawsOver(EnvColumns(1995, 2023), 0)
    \cup {[columns |-> EnvColumns(1996, 2022), metadata |-> TRUE,
           rows |-> CHOOSE b \in EnvBases(EnvColumns(1996, 2022)) : Len(b) = 7],
          [columns |-> EnvColumns(1995, 2022), metadata |-> FALSE,
           rows |-> CHOOSE b \in EnvBases(EnvColumns(1995, 2022)) : Len(b) = 7]}

InitEnvExp ==
    /\ pc = "clean_env"
    /\ env_exp_raw \in EnvRaws
    /\ country_name_mapping \in EnvCountryMappings
    /\ variable_name_mapping \in VariableMappings
    /\ health_exp_raw = NoTable
    /\ env_burden_raw = NoTable
    /\ health_exp_clean = NotRun
    /\ env_exp_clean = NotRun
    /\ env_burden_clean = NotRun
    /\ processed = [f \in ProcessedFiles |-> NoFile]
    /\ env_burden_data = NotRun
    /\ df_global = <<>>
    /\ df_exp = <<>>
    /\ NothingDelivered
    /\ PageNotOpen

SpecEnvExp == InitEnvExp /\ [][CleanEnvExp]_vars

-----------------------------------------------------------------------------
(* Inputs: raw burden extracts *)

MaxBurdenRows == 2

BurdenLocations == {"Bahamas, The", "Bahamas"}
BurdenYears == {2010, 2020}
BurdenSexes == {"Both", "Male"}
BurdenIndicators == {"Unsafe water source", "High temperature", "Non-optimal temperature"}

\* The rows an extract may hold: each indicator for both sexes together, and one
\* of them for one sex.
BurdenRowKinds ==
    {q \in BurdenLocations \X BurdenYears \X BurdenSexes \X BurdenIndicators :
        q[3] = "Male" => q[4] = "High temperature"}

\* The variable-name dicts tried: both retained indicators named, or one only.
BurdenVariableMappings ==
    {("Unsafe water source" :> "DALY_UNSAFE_WATER_SOURCE") @@ ("High temperature" :> "DALY_HIGH_TEMP"),
     ("Unsafe water source" :> "DALY_UNSAFE_WATER_SOURCE")}

\* The i-th row of an extract: the value differs from row to row.
BurdenRow(i, q) ==
    [location_name |-> q[1], year |-> q[2], sex_name |-> q[3], rei_name |-> q[4],
     val |-> Num(3 * i + (IF q[3] = "Both" THEN 1 ELSE 100))]

BurdenRaws ==
    {[metadata |-> TRUE, columns |-> <<>>, rows |-> [i \in 1..Len(qs) |-> BurdenRow(i, qs[i])]] :
        qs \in SeqsUpTo(BurdenRowKinds, MaxBurdenRows)}
    \cup {[metadata |-> FALSE, columns |-> <<>>,
           rows |-> <<BurdenRow(1, <<"Bahamas", 2010, "Both", "High temperature">>)>>]}

InitEnvBurden ==
    /\ pc = "clean_burden"
    /\ env_burden_raw \in BurdenRaws
    /\ country_name_mapping \in CountryMappings
    /\ variable_name_mapping \in BurdenVariableMappings
    /\ health_exp_raw = NoTable
    /\ env_exp_raw = NoTable
    /\ health_exp_clean = NotRun
    /\ env_exp_clean = NotRun
    /\ env_burden_clean = NotRun
    /\ processed = [f \in ProcessedFiles |-> NoFile]
    /\ env_burden_data = NotRun
    /\ df_global = <<>>
    /\ df_exp = <<>>
    /\ NothingDelivered
    /\ PageNotOpen

SpecEnvBurden == InitEnvBurden /\ [][CleanEnvBurden]_vars

\* Any one of the three cleaners, run on any of its inputs.
InitCleaners == InitHealth \/ InitEnvExp \/ InitEnvBurden
NextCleaners == CleanHealthExp \/ CleanEnvExp \/ CleanEnvBurden
SpecCleaners == InitCleaners /\ [][NextCleaners]_vars

MaxRuns == 2

\* The cleaner call is executed once more, on the raw table and the dicts at
\* hand and with the files the earlier call left.
RunAgain ==
    /\ runs >= 1
    /\ runs < MaxRuns
    /\ pc \in {"fetch_env", "load_burden", "merge", "failed"}
    /\ pc' = (CASE health_exp_raw # NoTable -> "clean_health"
                [] env_exp_raw # NoTable -> "clean_env"
                [] OTHER -> "clean_burden")
    /\ UNCHANGED <<health_exp_raw, env_exp_raw, env_burden_raw, country_name_mapping,
                   variable_name_mapping, health_exp_clean, env_exp_clean, env_burden_clean,
                   processed, env_burden_data, df_global, df_exp,
                   response, raw_folder, interim_folder, num_zip_archives, console, runs,
                   requests_sent,
                   pickers, n_clicks, picks, callbacks, charts>>

NextRerun == NextCleaners \/ RunAgain
SpecRerun == InitCleaners /\ [][NextRerun]_vars

-----------------------------------------------------------------------------
(* Inputs: the folder ../data/raw for load_env_burden_data *)

MaxArchives == 3

\* A workbook with one complete country and the source note.
HealthWorkbook ==
    [columns |-> YearColumns(2010, 2019), unnamed11 |-> TRUE,
     rows |-> <<HealthRow(YearColumns(2010, 2019), "Bahamas, The", NoGap),
                [country |-> "Data from database: World Development Indicators",
                 cells |-> [y \in Range(YearColumns(2010, 2019)) |-> NA]]>>]

\* Any number of archives up to MaxArchives, any number asked for, with or
\* without the workbook (and its copy in ../data/interim) beside them.
InitLoadBurden ==
    /\ pc = "load_burden"
    /\ num_zip_archives \in 1..MaxArchives
    /\ \E A \in SUBSET (1..MaxArchives), h \in {NoRawFile, RawFile(HealthWorkbook)} :
          /\ raw_folder = [health |-> h, archives |-> A, env |-> NoRawFile]
          /\ interim_folder = IF h.exists THEN {HealthInterimName} ELSE {}
    /\ response = NoResponse
    /\ console = <<>>
    /\ runs = 0
    /\ requests_sent = 0
    /\ PageNotOpen
    /\ health_exp_raw = NoTable
    /\ env_exp_raw = NoTable
    /\ env_burden_raw = NoTable
    /\ country_name_mapping = EmptyMapping
    /\ variable_name_mapping = EmptyMapping
    /\ health_exp_clean = NotRun
    /\ env_exp_clean = NotRun
    /\ env_burden_clean = NotRun
    /\ processed = [f \in ProcessedFiles |-> NoFile]
    /\ env_burden_data = NotRun
    /\ df_global = <<>>
    /\ df_exp = <<>>

SpecLoadBurden == InitLoadBurden /\ [][LoadEnvBurden]_vars

-----------------------------------------------------------------------------
(* Inputs: a run of EDA_NoMarkdown.py from the loading of the first source *)

\* The extract the server sends: the seven sub-categories of one country.
EnvExtract ==
    [columns |-> EnvColumns(1995, 2022), metadata |-> TRUE,
     rows |-> CHOOSE b \in EnvBases(EnvColumns(1995, 2022)) : Len(b) = 7]

\* The extract an earlier run of the script left in ../data/raw: the same
\* country without its waste row.
EarlierEnvExtract ==
    [columns |-> EnvColumns(1995, 2022), metadata |-> TRUE,
     rows |-> CHOOSE b \in EnvBases(EnvColumns(1995, 2022)) : Len(b) = 6]

\* What the server answers: nothing, the extract, or an error status.
Responses ==
    {NoResponse, [status_code |-> StatusOk, content |-> EnvExtract]}
    \cup {[status_code |-> code, content |-> <<>>] : code \in {404, 503}}

\* The one dict of variable names the script loads, for both sources.
PipelineVariableMapping ==
    SevenMapping @@ ("Unsafe water source" :> "DALY_UNSAFE_WATER_SOURCE")
                 @@ ("High temperature" :> "DALY_HIGH_TEMP")

Init ==
    /\ pc = "load_health"
    /\ num_zip_archives = 2
    /\ \E k \in 0..MaxArchives, h \in {NoRawFile, LockedRawFile, RawFile(HealthWorkbook)},
          e \in {NoRawFile, RawFile(EarlierEnvExtract)} :
          raw_folder = [health |-> h, archives |-> 1..k, env |-> e]
    /\ interim_folder = {}
    /\ response \in Responses
    /\ country_name_mapping \in CountryMappings
    /\ variable_name_mapping = PipelineVariableMapping
    /\ console = <<>>
    /\ runs = 0
    /\ requests_sent = 0
    /\ PageNotOpen
    /\ health_exp_raw = NoTable
    /\ env_exp_raw = NoTable
    /\ env_burden_raw = NoTable
    /\ health_exp_clean = NotRun
    /\ env_exp_clean = NotRun
    /\ env_burden_clean = NotRun
    /\ processed = [f \in ProcessedFiles |-> NoFile]
    /\ env_burden_data = NotRun
    /\ df_global = <<>>
    /\ df_exp = <<>>

\* The script runs its cells in order; EDA_NoMarkdown.py:35-59.
Next ==
    \/ LoadHealthExp
    \/ CleanHealthExp
    \/ FetchEnvExp
    \/ CleanEnvExp
    \/ LoadEnvBurden
    \/ CleanEnvBurden
    \/ Merge

Spec == Init /\ [][Next]_vars

-----------------------------------------------------------------------------
(* Inputs: cleaned tables for the merge, canonical datasets for the dashboard *)

MaxMergeRows == 2
MaxDatasetRows == 2

MergeCountries == {"Bahamas", "Bahamas, The"}
MergeYears == {2010, 2019}

NoColumns == [c \in {} |-> NA]

\* A row as clean_health_exp_data returns it.
HealthCleanRow(c, y) ==
    [country |-> c, year |-> y, HEALTH_EXP |-> R(6), ISO_3166_1_alpha_3 |-> get_country_code(c)]

\* A row as clean_env_exp_data returns it: the code is the one of the extract.
EnvCleanRow(c, y) ==
    [country |-> c, ISO_3166_1_alpha_3 |-> "BHS", year |-> y, ENV_EXP_TOTAL |-> R(2),
     other |-> NoColumns]

\* A row as clean_env_burden_data returns it.
BurdenCleanRow(c, y) ==
    [country |-> c, year |-> y, ISO_3166_1_alpha_3 |-> get_country_code(c),
     other |-> ("High temperature" :> [kind |-> "rat", v |-> R(40), s |-> ""])]

CleanRow(cleaner, c, y) ==
    CASE cleaner = "health" -> HealthCleanRow(c, y)
      [] cleaner = "env" -> EnvCleanRow(c, y)
      [] OTHER -> BurdenCleanRow(c, y)

CleanTables(cleaner, columns) ==
    {[status |-> "ok", columns |-> columns,
      table |-> [i \in 1..Len(ks) |-> CleanRow(cleaner, ks[i][1], ks[i][2])]] :
        ks \in SeqsUpTo(MergeCountries \X MergeYears, MaxMergeRows)}

InitMerge ==
    /\ pc = "merge"
    /\ health_exp_clean \in CleanTables("health", HealthColumns)
    /\ env_exp_clean \in CleanTables("env", EnvKeyColumns \o <<"ENV_EXP_TOTAL">>)
    /\ env_burden_clean \in
          CleanTables("burden", <<"country", "year", "DALY_HIGH_TEMP", "ISO_3166_1_alpha_3">>)
    /\ health_exp_raw = NoTable
    /\ env_exp_raw = NoTable
    /\ env_burden_raw = NoTable
    /\ country_name_mapping = EmptyMapping
    /\ variable_name_mapping = EmptyMapping
    /\ processed = [f \in ProcessedFiles |-> NoFile]
    /\ env_burden_data = NotRun
    /\ df_global = <<>>
    /\ df_exp = <<>>
    /\ NothingDelivered
    /\ PageNotOpen

SpecMerge == InitMerge /\ [][Merge]_vars

\* The expenditures (percent of GDP) of the rows of a canonical dataset.
DatasetHealth == {R(6), Rat(13, 2), R(60)}
DatasetEnvironment == {R(2), R(50)}

DatasetRow(c, y, h, e) ==
    [country |-> c, year |-> y, ISO_3166_1_alpha_3 |-> get_country_code(c),
     HEALTH_EXP |-> h, ENV_EXP_TOTAL |-> e, expenditures |-> NoColumns,
     indicators |-> ("High temperature" :> [kind |-> "rat", v |-> R(40), s |-> ""])]

\* datasets/env_burden_data.csv as a pipeline run leaves it.
Datasets ==
    {[status |-> "ok",
      columns |-> <<"country", "year", "HEALTH_EXP", "ISO_3166_1_alpha_3", "ENV_EXP_TOTAL",
                    "DALY_HIGH_TEMP">>,
      table |-> [i \in 1..Len(qs) |-> DatasetRow(qs[i][1], qs[i][2], qs[i][3], qs[i][4])]] :
        qs \in SeqsUpTo({"Bahamas", "Chad"} \X MergeYears \X DatasetHealth \X DatasetEnvironment,
                        MaxDatasetRows)}

InitDashboard ==
    /\ pc = "app_load"
    /\ env_burden_data \in Datasets
    /\ health_exp_raw = NoTable
    /\ env_exp_raw = NoTable
    /\ env_burden_raw = NoTable
    /\ country_name_mapping = EmptyMapping
    /\ variable_name_mapping = EmptyMapping
    /\ health_exp_clean = NotRun
    /\ env_exp_clean = NotRun
    /\ env_burden_clean = NotRun
    /\ processed = [f \in ProcessedFiles |-> NoFile]
    /\ df_global = <<>>
    /\ df_exp = <<>>
    /\ NothingDelivered
    /\ PageNotOpen

SpecDashboard == InitDashboard /\ [][LoadDashboardData]_vars

\* A dataset with two indicator columns, one country with two years and one
\* with one; and the dataset without rows.
AppRow(c, y, h, e, t) ==
    [DatasetRow(c, y, R(h), R(e)) EXCEPT
        !.indicators = ("High temperature" :> [kind |-> "rat", v |-> R(t), s |-> ""])
                       @@ ("Unsafe water source" :> [kind |-> "rat", v |-> R(t + 1), s |-> ""])]

AppColumns ==
    <<"country", "year", "HEALTH_EXP", "ISO_3166_1_alpha_3", "ENV_EXP_TOTAL",
      "DALY_HIGH_TEMP", "DALY_UNSAFE_WATER_SOURCE">>

AppDatasets ==
    {[status |-> "ok", columns |-> AppColumns,
      table |-> <<AppRow("Bahamas", 2019, 6, 2, 40), AppRow("Bahamas", 2010, 7, 3, 50),
                  AppRow("Chad", 2010, 8, 4, 60)>>],
     [status |-> "ok", columns |-> AppColumns, table |-> <<>>]}

InitApp ==
    /\ pc = "app_load"
    /\ env_burden_data \in AppDatasets
    /\ health_exp_raw = NoTable
    /\ env_exp_raw = NoTable
    /\ env_burden_raw = NoTable
    /\ country_name_mapping = EmptyMapping
    /\ variable_name_mapping = EmptyMapping
    /\ health_exp_clean = NotRun
    /\ env_exp_clean = NotRun
    /\ env_burden_clean = NotRun
    /\ processed = [f \in ProcessedFiles |-> NoFile]
    /\ df_global = <<>>
    /\ df_exp = <<>>
    /\ NothingDelivered
    /\ PageNotOpen

NextApp ==
    \/ LoadDashboardData
    \/ ServeLayout
    \/ SelectValue
    \/ ClickApply
    \/ \E o \in Outputs : Respond(o)

SpecApp == InitApp /\ [][NextApp]_vars


-----------------------------------------------------------------------------
(* Claims about the cleaners *)

\* Whether a sequence of rows holds two rows with the same (country, year).
HasDuplicateKey(table) ==
    \E i, j \in 1..Len(table) :
        i < j /\ table[i].country = table[j].country /\ table[i].year = table[j].year

\* The rows of the burden extract that reach the pivot (sex 'Both', indicator not
\* removed), by position.
BurdenPivotInput == {i \in 1..Len(env_burden_raw.rows) :
    /\ env_burden_raw.rows[i].sex_name = "Both"
    /\ env_burden_raw.rows[i].rei_name \notin indicators_to_remove}

BurdenDuplicateCell ==
    \E i, j \in BurdenPivotInput :
        /\ i < j
        /\ env_burden_raw.rows[i].location_name = env_burden_raw.rows[j].location_name
        /\ env_burden_raw.rows[i].year = env_burden_raw.rows[j].year
        /\ env_burden_raw.rows[i].rei_name = env_burden_raw.rows[j].rei_name

\* C2: when the burden extract holds two rows for one (country, year, indicator)
\* after the sex and indicator filters, clean_env_burden_data raises and returns
\* no table.
C2_DuplicateKeyRaises ==
    (env_burden_clean # NotRun /\ env_burden_raw.metadata /\ BurdenDuplicateCell)
        => env_burden_clean.status # "ok"

\* C3: no cleaner returns a table with two rows of the same (country, year).
C3_UniqueKeys ==
    /\ ~HasDuplicateKey(health_exp_clean.table)
    /\ ~HasDuplicateKey(env_exp_clean.table)
    /\ ~HasDuplicateKey(env_burden_clean.table)

\* The raw data rows of the health extract: all rows but the last.
HealthDataRows == SubSeq(health_exp_raw.rows, 1, Len(health_exp_raw.rows) - 1)

\* A raw cell that holds no value: empty, or a '..' / '...' placeholder.
IsGap(cell) == cell.kind = "na" \/ cell = Txt("..") \/ cell = Txt("...")

HealthRowComplete(r) == \A y \in YearLo..YearHi : ~IsGap(r.cells[YearLabel(y)])

HealthShapeOk ==
    /\ Len(health_exp_raw.rows) > 0
    /\ health_exp_raw.unnamed11
    /\ \A y \in YearLo..YearHi : YearLabel(y) \in Range(health_exp_raw.columns)

CountRows(table, country, year) ==
    Cardinality({i \in 1..Len(table) : table[i].country = country /\ table[i].year = year})

\* C4: the health cleaner succeeds on an extract with the expected columns, and
\* then every raw data row with a value in each of 2010..2019 gives exactly one
\* output row per year 2010..2019 under its canonical country name, and a raw data
\* row with a gap in 2010..2019 gives none: the output has ten rows per complete
\* data row and no other row.
C4_StrictCompleteness ==
    (health_exp_clean # NotRun /\ HealthShapeOk) =>
        LET out == health_exp_clean.table
            complete == {i \in 1..Len(HealthDataRows) : HealthRowComplete(HealthDataRows[i])}
            Name(i) == MapName(country_name_mapping, HealthDataRows[i].country)
        IN  /\ health_exp_clean.status = "ok"
            /\ Len(out) = 10 * Cardinality(complete)
            /\ \A c \in {Name(i) : i \in 1..Len(HealthDataRows)} \cup {out[k].country : k \in 1..Len(out)} :
                 \A y \in (YearLo - 1)..(YearHi + 1) :
                    CountRows(out, c, y) =
                        IF y \in YearLo..YearHi
                        THEN Cardinality({i \in complete : Name(i) = c})
                        ELSE 0

\* C4 witness: one country complete, another with a gap in 2015, cleaned to the
\* ten rows of the first.
C4_Witness ==
    /\ health_exp_clean.status = "ok"
    /\ Len(HealthDataRows) = 2
    /\ HealthRowComplete(HealthDataRows[1])
    /\ IsGap(HealthDataRows[2].cells[YearLabel(2015)])
    /\ HealthDataRows[1].country # HealthDataRows[2].country
    /\ Len(health_exp_clean.table) = 10
    /\ \A k \in 1..10 : health_exp_clean.table[k].country = HealthDataRows[1].country

\* C8: every row the health cleaner and the environmental expenditure cleaner
\* return has an integer year in 2010..2019.
C8_YearsInRange ==
    /\ \A i \in 1..Len(health_exp_clean.table) :
         /\ health_exp_clean.table[i].year \in Int
         /\ YearLo <= health_exp_clean.table[i].year /\ health_exp_clean.table[i].year <= YearHi
    /\ \A i \in 1..Len(env_exp_clean.table) :
         /\ env_exp_clean.table[i].year \in Int
         /\ YearLo <= env_exp_clean.table[i].year /\ env_exp_clean.table[i].year <= YearHi

\* C8 witness: an extract with the year columns 2009 and 2020, both holding
\* values, cleaned to a table that is not empty.
C8_Witness ==
    /\ health_exp_clean.status = "ok"
    /\ Len(health_exp_clean.table) > 0
    /\ {YearLabel(2009), YearLabel(2020)} \subseteq Range(health_exp_raw.columns)
    /\ \E i \in 1..Len(HealthDataRows) :
         /\ HealthRowComplete(HealthDataRows[i])
         /\ HealthDataRows[i].cells[YearLabel(2009)].kind = "num"
         /\ HealthDataRows[i].cells[YearLabel(2020)].kind = "num"

\* The rows of the environmental extract whose Unit is 'Percent of GDP'.
EnvGdpRows == SelectSeq(env_exp_raw.rows, LAMBDA r : r.Unit = "Percent of GDP")

EnvShapeOk ==
    /\ env_exp_raw.metadata
    /\ years_to_drop \cup EnvYearSubset \subseteq Range(env_exp_raw.columns)

\* The single value a sequence of values stands for, and 0 for none.
EnvRawValue(vals) == IF Len(vals) = 0 THEN R(0) ELSE R(vals[1])

\* The values the 'Percent of GDP' raw rows hold for one output row (canonical
\* country, ISO3, year) and one raw category.
EnvRawValues(out, cat) ==
    LET hits == SelectSeq(EnvGdpRows, LAMBDA r :
                    /\ MapName(country_name_mapping, r.Country) = out.country
                    /\ r.ISO3 = out.ISO_3166_1_alpha_3
                    /\ r.CTS_Name = cat
                    /\ r.cells[FLabel(out.year)].kind = "num")
    IN  [i \in 1..Len(hits) |-> hits[i].cells[FLabel(out.year)].v]

\* The raw categories that carry one of the seven names after the renaming.
EnvSummedCategories ==
    SortNames({c \in {EnvGdpRows[i].CTS_Name : i \in 1..Len(EnvGdpRows)} :
        MapName(variable_name_mapping, c) \in Range(env_expenditures_to_sum_up)})

\* The extract holds one 'Percent of GDP' row per (country, ISO3, category) at most.
EnvOneRowPerCategory ==
    \A i, j \in 1..Len(EnvGdpRows) :
        (/\ EnvGdpRows[i].Country = EnvGdpRows[j].Country
         /\ EnvGdpRows[i].ISO3 = EnvGdpRows[j].ISO3
         /\ EnvGdpRows[i].CTS_Name = EnvGdpRows[j].CTS_Name) => i = j

\* C5: for every output row of the environmental expenditure cleaner,
\* ENV_EXP_TOTAL is the sum of the values that the 'Percent of GDP' raw rows hold
\* for that row's (country, ISO3, year) in the seven sub-categories.
C5_TotalIsSumOfRawValues ==
    (env_exp_clean.status = "ok" /\ EnvOneRowPerCategory) =>
        \A k \in 1..Len(env_exp_clean.table) :
            LET out == env_exp_clean.table[k]
            IN  out.ENV_EXP_TOTAL =
                    SumRats([i \in 1..Len(EnvSummedCategories) |->
                                EnvRawValue(EnvRawValues(out, EnvSummedCategories[i]))])

\* The sub-categories that are absent after the renaming step: no complete
\* 'Percent of GDP' row carries the name.
EnvAbsentSubcategories ==
    {sub \in Range(env_expenditures_to_sum_up) :
        ~\E i \in 1..Len(EnvGdpRows) :
            /\ MapName(variable_name_mapping, EnvGdpRows[i].CTS_Name) = sub
            /\ \A y \in YearLo..YearHi : EnvGdpRows[i].cells[FLabel(y)].kind = "num"}

\* C6: when one of the seven sub-categories is absent after the renaming step,
\* clean_env_exp_data raises: it returns no table and writes no checkpoint.
C6_AbsentSubcategoryRaises ==
    (env_exp_clean # NotRun /\ EnvShapeOk /\ EnvAbsentSubcategories # {}) =>
        /\ env_exp_clean.status \notin {"ok", "not run"}
        /\ env_exp_clean.table = <<>>
        /\ processed["env_exp_clean.csv"] = NoFile
        /\ pc = "failed"

\* C6 witness: six of the seven sub-categories are there, waste is absent, and
\* the cleaner has raised KeyError.
C6_Witness ==
    /\ env_exp_clean.status = "KeyError"
    /\ EnvShapeOk
    /\ EnvAbsentSubcategories = {"ENV_EXP_WASTE"}

\* C7: the result of clean_env_exp_data is the result it gives on the extract
\* without the rows of any other unit than 'Percent of GDP': such a row changes
\* no row and no value of the output.
C7_OtherUnitsIgnored ==
    env_exp_clean # NotRun =>
        env_exp_clean = clean_env_exp_data([env_exp_raw EXCEPT !.rows = EnvGdpRows],
                                           country_name_mapping, variable_name_mapping)

\* C7 witness: a row in another unit beside the 'Percent of GDP' row of the same
\* country and category, and a cleaned table that is not empty.
C7_Witness ==
    /\ env_exp_clean.status = "ok"
    /\ Len(env_exp_clean.table) > 0
    /\ \E i, j \in 1..Len(env_exp_raw.rows) :
         /\ env_exp_raw.rows[i].Unit # "Percent of GDP"
         /\ env_exp_raw.rows[j].Unit = "Percent of GDP"
         /\ env_exp_raw.rows[i].Country = env_exp_raw.rows[j].Country
         /\ env_exp_raw.rows[i].CTS_Name = env_exp_raw.rows[j].CTS_Name
         /\ \A y \in YearLo..YearHi : env_exp_raw.rows[j].cells[FLabel(y)].kind = "num"

\* C9: the table clean_env_exp_data returns has exactly the columns country,
\* ISO_3166_1_alpha_3, year and ENV_EXP_TOTAL.
C9_OnlyKeyAndTotalColumns ==
    env_exp_clean.status = "ok" =>
        /\ Len(env_exp_clean.columns) = 4
        /\ Range(env_exp_clean.columns) = {"country", "ISO_3166_1_alpha_3", "year", "ENV_EXP_TOTAL"}

-----------------------------------------------------------------------------
(* Claims about the merge and the dashboard's data *)

Keys(table) == {MergeKey(table[i]) : i \in 1..Len(table)}

\* C1: the keys (country, year, ISO3) of the merged dataset are exactly the keys
\* that all three cleaned tables hold: a key missing from any one of them is not
\* in the output.
C1_MergedKeysAreIntersection ==
    env_burden_data # NotRun =>
        /\ env_burden_data.status = "ok"
        /\ Keys(env_burden_data.table) =
              Keys(health_exp_clean.table) \cap Keys(env_exp_clean.table)
                  \cap Keys(env_burden_clean.table)

\* C1 witness: a merged dataset that is not empty, from tables of which each
\* holds a key that another lacks.
C1_Witness ==
    /\ env_burden_data.status = "ok"
    /\ Len(env_burden_data.table) > 0
    /\ Keys(health_exp_clean.table) \ Keys(env_exp_clean.table) # {}
    /\ Keys(env_exp_clean.table) \ Keys(env_burden_clean.table) # {}
    /\ Keys(env_burden_clean.table) \ Keys(env_exp_clean.table) # {}

\* C10: in the dashboard's expenditure table every row of the canonical dataset
\* has its 'Health', 'Environment' and 'Other' rows under its (country, year), the
\* first two with the dataset's values, and the three values add up to 100:
\* Other = 100 - (Health + Environment), negative where the two exceed 100.
C10_OtherIsResidual ==
    pc = "app_ready" =>
        LET n == Len(df_global)
        IN  /\ Len(df_exp) = 3 * n
            /\ \A i \in 1..n :
                 LET h == df_exp[i]
                     e == df_exp[n + i]
                     o == df_exp[2 * n + i]
                 IN  /\ h.exp_type = "Health" /\ e.exp_type = "Environment" /\ o.exp_type = "Other"
                     /\ \A r \in {h, e, o} :
                            r.country = df_global[i].country /\ r.year = df_global[i].year
                     /\ h.exp_value = df_global[i].HEALTH_EXP
                     /\ e.exp_value = df_global[i].ENV_EXP_TOTAL
                     /\ o.exp_value.n * h.exp_value.d * e.exp_value.d
                        + h.exp_value.n * o.exp_value.d * e.exp_value.d
                        + e.exp_value.n * o.exp_value.d * h.exp_value.d
                        = 100 * o.exp_value.d * h.exp_value.d * e.exp_value.d
                     /\ o.exp_value.d > 0

\* C10 witness: a (country, year) whose two expenditures exceed 100, with a
\* negative 'Other'.
C10_Witness ==
    /\ pc = "app_ready"
    /\ \E i \in 1..Len(df_global) :
         /\ df_global[i].HEALTH_EXP = R(60) /\ df_global[i].ENV_EXP_TOTAL = R(50)
         /\ df_exp[2 * Len(df_global) + i].exp_value = R(-10)

-----------------------------------------------------------------------------
(* Claims about country names and country codes *)

\* The canonical name the country-name dict gives a raw name.
CanonicalName(name) ==
    IF name \in DOMAIN country_name_mapping THEN country_name_mapping[name] ELSE name

\* The raw names of the rows that reach the output of the health cleaner (data
\* rows with a value in each of 2010..2019) and of the burden cleaner.
HealthKeptNames ==
    {HealthDataRows[i].country : i \in {j \in 1..Len(HealthDataRows) : HealthRowComplete(HealthDataRows[j])}}
BurdenKeptNames == {env_burden_raw.rows[i].location_name : i \in BurdenPivotInput}

\* Every row of a cleaned table carries the code of its own country name, and
\* every raw name whose canonical name resolves has rows under the canonical name
\* with that code.
ResolvedAfterMapping(table, raw_names) ==
    /\ \A k \in 1..Len(table) :
         /\ table[k].country \in {CanonicalName(n) : n \in raw_names}
         /\ table[k].ISO_3166_1_alpha_3 = get_country_code(table[k].country)
    /\ \A n \in raw_names :
         get_country_code(CanonicalName(n)) # NONE =>
            \E k \in 1..Len(table) :
                /\ table[k].country = CanonicalName(n)
                /\ table[k].ISO_3166_1_alpha_3 = get_country_code(CanonicalName(n))

\* C11: the health cleaner and the burden cleaner resolve the ISO3 code of the
\* mapped (canonical) country name: a country whose canonical name resolves has
\* that code in the output, also when its raw name does not resolve.
C11_MappingBeforeResolution ==
    /\ health_exp_clean.status = "ok" => ResolvedAfterMapping(health_exp_clean.table, HealthKeptNames)
    /\ env_burden_clean.status = "ok" => ResolvedAfterMapping(env_burden_clean.table, BurdenKeptNames)

\* C11 witness: the burden extract names the country 'Bahamas, The' only, which
\* does not resolve; the dict shortens it to 'Bahamas', and the cleaned rows carry BHS.
C11_Witness ==
    /\ env_burden_clean.status = "ok"
    /\ BurdenKeptNames = {"Bahamas, The"}
    /\ get_country_code("Bahamas, The") = NONE
    /\ CanonicalName("Bahamas, The") = "Bahamas"
    /\ Len(env_burden_clean.table) > 0
    /\ \A k \in 1..Len(env_burden_clean.table) :
         /\ env_burden_clean.table[k].country = "Bahamas"
         /\ env_burden_clean.table[k].ISO_3166_1_alpha_3 = "BHS"

\* The country names of the model that pycountry's lookup knows.
KnownNames == {"Bahamas", "Chad"}

\* The rows of a cleaned table for a name the lookup does not know: there are
\* some, and each has no code.
KeptWithoutCode(table, raw_names) ==
    \A n \in raw_names :
        CanonicalName(n) \notin KnownNames =>
            /\ \E k \in 1..Len(table) : table[k].country = CanonicalName(n)
            /\ \A k \in 1..Len(table) :
                 table[k].country = CanonicalName(n) => table[k].ISO_3166_1_alpha_3 = NONE

\* C12: a country name the lookup does not know gets the code none and no
\* exception: the health and the burden cleaner complete on a well-formed extract
\* that holds such a name and keep the country's rows, with ISO3 = none.
C12_UnknownNameKeptWithoutCode ==
    /\ (health_exp_clean # NotRun /\ HealthShapeOk) =>
          /\ health_exp_clean.status = "ok"
          /\ KeptWithoutCode(health_exp_clean.table, HealthKeptNames)
          /\ processed["health_exp_clean.csv"] = Written(health_exp_clean)
    /\ (env_burden_clean # NotRun /\ env_burden_raw.metadata) =>
          /\ env_burden_clean.status = "ok"
          /\ KeptWithoutCode(env_burden_clean.table, BurdenKeptNames)
          /\ processed["env_burden_clean.csv"] = Written(env_burden_clean)

\* C12 witness: the health extract holds the complete row of 'Bahamas, The', no
\* dict shortens the name, and the ten rows of the country are kept without a code.
C12_Witness ==
    /\ health_exp_clean.status = "ok"
    /\ country_name_mapping = EmptyMapping
    /\ HealthKeptNames = {"Bahamas, The"}
    /\ "Bahamas, The" \notin KnownNames
    /\ CountRows(health_exp_clean.table, "Bahamas, The", 2010) = 1
    /\ Len(health_exp_clean.table) = 10
    /\ \A k \in 1..10 :
         /\ health_exp_clean.table[k].country = "Bahamas, The"
         /\ health_exp_clean.table[k].ISO_3166_1_alpha_3 = NONE

-----------------------------------------------------------------------------
(* Claims about repeated runs *)

-----------------------------------------------------------------------------
(* Claims about the loaders and the pipeline run *)

\* The fetch has been made and the server answered with another status than 200.
FetchFailed ==
    /\ pc \notin {"load_health", "clean_health", "fetch_env"}
    /\ health_exp_clean.status = "ok"
    /\ response # NoResponse
    /\ response.status_code # StatusOk

\* C14: after a fetch that got a non-success status, fetch_env_exp_data has
\* printed the failure and returned none, nothing was saved to ../data/raw, and
\* the run never gets through the merge: it ends before, no canonical dataset
\* exists and nothing says that one was saved.
C14_FetchFailureStopsRun ==
    FetchFailed =>
        /\ env_exp_raw = PyNone
        /\ \E i \in 1..Len(console) : console[i] = FetchFailedMessage
        /\ raw_folder.env \in {NoRawFile, RawFile(EarlierEnvExtract)}
        /\ pc \in {"clean_env", "failed"}
        /\ env_exp_clean.status \in {"not run", "AttributeError"}
        /\ processed["env_exp_clean.csv"] = NoFile
        /\ env_burden_data = NotRun
        /\ \A i \in 1..Len(console) : console[i] # MergedMessage

\* C14 witness: the health source was loaded and cleaned, the server answered
\* 404, and the run has ended in the environmental cleaner.
C14_Witness ==
    /\ FetchFailed
    /\ response.status_code = 404
    /\ health_exp_clean.status = "ok"
    /\ processed["health_exp_clean.csv"].exists
    /\ env_exp_clean.status = "AttributeError"
    /\ pc = "failed"
    /\ env_burden_data = NotRun

\* The rows of the CSV files of a sequence of archives, one after the other.
RECURSIVE RowsOfArchives(_)
RowsOfArchives(q) ==
    IF q = <<>> THEN <<>> ELSE ArchiveRows(Head(q)) \o RowsOfArchives(Tail(q))

\* C15: with at least num_zip_archives archives in ../data/raw and no CSV file in
\* ../data/interim beforehand, load_env_burden_data returns the rows of
\* num_zip_archives different archives, each archive's rows once.
C15_LoadsDistinctArchives ==
    (pc # "load_burden" /\ Cardinality(raw_folder.archives) >= num_zip_archives) =>
        /\ pc = "clean_burden"
        /\ \E q \in Listings(raw_folder.archives, num_zip_archives) :
              env_burden_raw.rows = RowsOfArchives(q)

\* The place of a position in the script's order.
PcRank(p) ==
    CASE p = "load_health" -> 1
      [] p = "clean_health" -> 2
      [] p = "fetch_env" -> 3
      [] p = "clean_env" -> 4
      [] p = "load_burden" -> 5
      [] p = "clean_burden" -> 6
      [] p = "merge" -> 7
      [] p = "done" -> 8
      [] OTHER -> 9

\* A cleaner has returned its table and written its checkpoint.
Completed(res, file) == res.status = "ok" /\ processed[file] = Written(res)

\* When the merge is about to start or has run, the three cleaners have run to
\* completion on loaded tables; a canonical dataset exists only after the merge,
\* and it is the merge of the three tables as the cleaners returned them.
MergeAfterCleaners ==
    /\ pc \in {"merge", "done"} =>
          /\ Completed(health_exp_clean, "health_exp_clean.csv")
          /\ Completed(env_exp_clean, "env_exp_clean.csv")
          /\ Completed(env_burden_clean, "env_burden_clean.csv")
          /\ health_exp_clean = clean_health_exp_data(health_exp_raw, country_name_mapping)
          /\ env_exp_clean =
                clean_env_exp_data(env_exp_raw, country_name_mapping, variable_name_mapping)
          /\ env_burden_clean =
                clean_env_burden_data(env_burden_raw, country_name_mapping, variable_name_mapping)
    /\ env_burden_data # NotRun =>
          /\ pc = "done"
          /\ env_burden_data =
                MergeBurden(MergeExpenditures(health_exp_clean, env_exp_clean), env_burden_clean)

\* A step of the run goes forward in the script's order and changes no table
\* that an earlier step has loaded, cleaned or merged.
OneWayStep ==
    /\ PcRank(pc') > PcRank(pc)
    /\ health_exp_raw # NoTable => health_exp_raw' = health_exp_raw
    /\ env_exp_raw # NoTable => env_exp_raw' = env_exp_raw
    /\ env_burden_raw # NoTable => env_burden_raw' = env_burden_raw
    /\ health_exp_clean # NotRun => health_exp_clean' = health_exp_clean
    /\ env_exp_clean # NotRun => env_exp_clean' = env_exp_clean
    /\ env_burden_clean # NotRun => env_burden_clean' = env_burden_clean
    /\ env_burden_data # NotRun => env_burden_data' = env_burden_data

\* C16: in a pipeline run the merge starts only after all three cleaners have
\* run to completion, it consumes their complete outputs, and the data flows one
\* way: load, clean, merge, persist.
C16_MergeAfterCleaners == [](MergeAfterCleaners) /\ [][OneWayStep]_vars

\* C16 witness: a run that went through all seven steps and produced a canonical
\* dataset with a row.
C16_Witness ==
    /\ pc = "done"
    /\ Len(env_burden_data.table) > 0
    /\ Len(console) = 7

-----------------------------------------------------------------------------
(* Claims about the burden cleaner's filters *)

\* The rows of the burden extract of sex 'Both', and those among them whose
\* indicator is not in indicators_to_remove.
BurdenBothRows == SelectSeq(env_burden_raw.rows, LAMBDA r : r.sex_name = "Both")
BurdenRetainedRows == SelectSeq(BurdenBothRows, LAMBDA r : r.rei_name \notin indicators_to_remove)

\* C17: the result of clean_env_burden_data is the result it gives on the
\* extract without the rows of any other sex than 'Both': such a row changes no
\* value and adds no row and no column.
C17_OtherSexesIgnored ==
    env_burden_clean # NotRun =>
        env_burden_clean =
            clean_env_burden_data([env_burden_raw EXCEPT !.rows = BurdenBothRows],
                                  country_name_mapping, variable_name_mapping)

\* C17 witness: a 'Male' row beside the 'Both' row of the same country, year and
\* indicator, with another value, and a cleaned table of one row that holds the
\* value of the 'Both' row.
C17_Witness ==
    /\ env_burden_clean.status = "ok"
    /\ Len(env_burden_clean.table) = 1
    /\ \E i, j \in 1..Len(env_burden_raw.rows) :
         LET m == env_burden_raw.rows[i]
             b == env_burden_raw.rows[j]
         IN  /\ m.sex_name = "Male" /\ b.sex_name = "Both"
             /\ m.location_name = b.location_name /\ m.year = b.year
             /\ m.rei_name = b.rei_name /\ m.val # b.val
             /\ env_burden_clean.table[1].other[b.rei_name].v = R(b.val.v)

\* The name of an indicator's column: from the variable-name dict, or unchanged.
IndicatorColumn(rei) ==
    IF rei \in DOMAIN variable_name_mapping THEN variable_name_mapping[rei] ELSE rei

\* The columns of the cleaned burden table besides country, year and the code.
BurdenValueColumns ==
    SelectSeq(env_burden_clean.columns,
              LAMBDA c : c \notin {"country", "year", "ISO_3166_1_alpha_3"})

\* C18: no indicator of indicators_to_remove is a column of the cleaned burden
\* table or changes a value of it, and every other indicator of the 'Both' rows
\* is exactly one column, under its name from the variable-name dict or its own.
C18_RemovedIndicatorsAbsent ==
    env_burden_clean.status = "ok" =>
        LET retained == {BurdenRetainedRows[i].rei_name : i \in 1..Len(BurdenRetainedRows)}
        IN  /\ \A rei \in indicators_to_remove :
                 /\ rei \notin Range(env_burden_clean.columns)
                 /\ \A k \in 1..Len(env_burden_clean.table) :
                       rei \notin DOMAIN env_burden_clean.table[k].other
            /\ Range(BurdenValueColumns) = {IndicatorColumn(rei) : rei \in retained}
            /\ Len(BurdenValueColumns) = Cardinality(retained)
            /\ env_burden_clean =
                  clean_env_burden_data([env_burden_raw EXCEPT !.rows = BurdenRetainedRows],
                                        country_name_mapping, variable_name_mapping)

\* C18 witness: 'Both' rows of 'Non-optimal temperature' and of 'High
\* temperature' for one country and year; the cleaned table has the one column
\* DALY_HIGH_TEMP.
C18_Witness ==
    /\ env_burden_clean.status = "ok"
    /\ Len(BurdenBothRows) = 2
    /\ BurdenBothRows[1].location_name = BurdenBothRows[2].location_name
    /\ BurdenBothRows[1].year = BurdenBothRows[2].year
    /\ {BurdenBothRows[1].rei_name, BurdenBothRows[2].rei_name}
          = {"Non-optimal temperature", "High temperature"}
    /\ BurdenValueColumns = <<"DALY_HIGH_TEMP">>
    /\ Len(env_burden_clean.table) = 1

-----------------------------------------------------------------------------
(* Claims about completeness in the environmental expenditure cleaner *)

\* A 'Percent of GDP' raw row with a missing value in one of the years 2010..2019.
EnvIncomplete(r) ==
    /\ r.Unit = "Percent of GDP"
    /\ \E y \in YearLo..YearHi : r.cells[FLabel(y)].kind = "na"

\* The extract without its incomplete 'Percent of GDP' rows.
EnvWithoutIncomplete ==
    [env_exp_raw EXCEPT !.rows = SelectSeq(env_exp_raw.rows, LAMBDA r : ~EnvIncomplete(r))]

\* The output rows of one (country, ISO3) and year.
EnvRowsOf(country, iso, y) ==
    {k \in 1..Len(env_exp_clean.table) :
        /\ env_exp_clean.table[k].country = country
        /\ env_exp_clean.table[k].ISO_3166_1_alpha_3 = iso
        /\ env_exp_clean.table[k].year = y}

\* C19: the environmental expenditure cleaner is strictly complete: a 'Percent
\* of GDP' raw row with a missing value in any year 2010..2019 contributes
\* nothing to the output (the output is that of the extract without such rows),
\* and every (country, ISO3) of the output has exactly ten rows, one for each
\* year 2010..2019.
C19_EnvStrictCompleteness ==
    env_exp_clean.status = "ok" =>
        /\ env_exp_clean =
              clean_env_exp_data(EnvWithoutIncomplete, country_name_mapping, variable_name_mapping)
        /\ \A k \in 1..Len(env_exp_clean.table) :
              LET out == env_exp_clean.table[k]
              IN  /\ out.year \in YearLo..YearHi
                  /\ \A y \in YearLo..YearHi :
                        Cardinality(EnvRowsOf(out.country, out.ISO_3166_1_alpha_3, y)) = 1

\* The cleaner has returned rows for an extract that holds an incomplete row of
\* a country of the output.
C19_Witness ==
    /\ env_exp_clean.status = "ok"
    /\ \E i \in 1..Len(env_exp_raw.rows) :
          /\ EnvIncomplete(env_exp_raw.rows[i])
          /\ \E k \in 1..Len(env_exp_clean.table) :
                env_exp_clean.table[k].country
                    = MapName(country_name_mapping, env_exp_raw.rows[i].Country)
    /\ Len(env_exp_clean.table) >= 10

\* The complete 'Percent of GDP' raw rows that give an output row its value of
\* one sub-category.
EnvSubcategoryRows(out, sub) ==
    {i \in 1..Len(EnvGdpRows) :
        /\ MapName(country_name_mapping, EnvGdpRows[i].Country) = out.country
        /\ EnvGdpRows[i].ISO3 = out.ISO_3166_1_alpha_3
        /\ MapName(variable_name_mapping, EnvGdpRows[i].CTS_Name) = sub
        /\ ~EnvIncomplete(EnvGdpRows[i])}

\* C20: no output row of the environmental expenditure cleaner carries a
\* partial total: for every output row, each of the seven sub-categories has a
\* complete 'Percent of GDP' raw row of that row's (country, ISO3).
C20_NoPartialTotal ==
    env_exp_clean.status = "ok" =>
        \A k \in 1..Len(env_exp_clean.table) :
            \A sub \in Range(env_expenditures_to_sum_up) :
                EnvSubcategoryRows(env_exp_clean.table[k], sub) # {}

-----------------------------------------------------------------------------
(* Claims about failures of the loaders *)

\* The server answered with a status other than 200, or did not answer.
FetchUnsuccessful == response = NoResponse \/ response.status_code # 200

\* One call of fetch_env_exp_data.
FetchCall ==
    (pc = "fetch_env" /\ pc' # "fetch_env") =>
        /\ requests_sent' = requests_sent + 1
        /\ FetchUnsuccessful => raw_folder' = raw_folder
        /\ (FetchUnsuccessful /\ response # NoResponse) => env_exp_raw' = PyNone

\* C21: fetch_env_exp_data is fail-fast: a call sends exactly one request and
\* never a second one, and when the response is not a success the raw data file
\* is left as it was (neither created nor overwritten) and none is returned.
C21_FetchFailsFast == [][FetchCall /\ requests_sent' <= requests_sent + 1]_vars

\* The fetch has failed beside the file an earlier run left, which still holds
\* the earlier extract.
C21_Witness ==
    /\ requests_sent = 1
    /\ response # NoResponse /\ response.status_code # 200
    /\ env_exp_raw = PyNone
    /\ raw_folder.env = RawFile(EarlierEnvExtract)

\* The raw health-expenditure file could not be copied or read.
HealthLoadFailed == pc # "load_health" /\ raw_folder.health \in {NoRawFile, LockedRawFile}

\* C22: when copying or reading the raw health-expenditure file fails with an
\* OS error, load_health_exp_data prints the reason the system gave, the script
\* receives no table, and the health cleaner called in that run is aborted and
\* writes no health checkpoint.
C22_HealthLoadFailureReported ==
    HealthLoadFailed =>
        /\ Len(console) >= 1
        /\ console[1] = (IF raw_folder.health = NoRawFile
                         THEN "Error: No such file or directory"
                         ELSE "Error: Permission denied")
        /\ health_exp_raw = PyNone
        /\ health_exp_clean.status # "ok"
        /\ ~processed["health_exp_clean.csv"].exists
        /\ pc \in {"clean_health", "failed"}
        /\ pc = "failed" => health_exp_clean.status = "AttributeError"

\* The health cleaner was called after the load of a locked file had failed.
C22_Witness ==
    /\ HealthLoadFailed
    /\ raw_folder.health = LockedRawFile
    /\ pc = "failed"
    /\ runs = 1

-----------------------------------------------------------------------------
(* Claims about what a cleaner call changes *)

\* The checkpoint file of the cleaner the script is about to call.
OwnCheckpoint ==
    CASE pc = "clean_health" -> "health_exp_clean.csv"
      [] pc = "clean_env" -> "env_exp_clean.csv"
      [] OTHER -> "env_burden_clean.csv"

\* One call of a cleaner: the raw tables and the dicts are as before, and so is
\* everything else but the value returned and the cleaner's own checkpoint; a
\* call that fails leaves the checkpoint as it was too.
CleanerCall ==
    pc \in {"clean_health", "clean_env", "clean_burden"} =>
        /\ UNCHANGED <<health_exp_raw, env_exp_raw, env_burden_raw,
                       country_name_mapping, variable_name_mapping>>
        /\ UNCHANGED <<raw_folder, interim_folder, response, requests_sent,
                       num_zip_archives, env_burden_data, df_global, df_exp>>
        /\ \A f \in ProcessedFiles \ {OwnCheckpoint} : processed'[f] = processed[f]
        /\ pc # "clean_health" => UNCHANGED health_exp_clean
        /\ pc # "clean_env" => UNCHANGED env_exp_clean
        /\ pc # "clean_burden" => UNCHANGED env_burden_clean
        /\ pc' = "failed" => UNCHANGED processed

\* C23: a cleaner call leaves its inputs unchanged: after any of the three
\* cleaners returns or fails, the raw table and the mapping tables passed in are
\* what they were before, and the only state changed beside the returned table
\* is the cleaner's own checkpoint file.
C23_CleanerLeavesInputs == [][CleanerCall]_vars

\* The health cleaner has returned rows and written its checkpoint for a raw
\* table with data rows and a dict that renames a country.
C23_Witness ==
    /\ health_exp_clean.status = "ok"
    /\ Len(health_exp_clean.table) > 0
    /\ processed["health_exp_clean.csv"].exists
    /\ Len(health_exp_raw.rows) >= 2
    /\ country_name_mapping # EmptyMapping

-----------------------------------------------------------------------------
(* Claims about the dashboard's callbacks *)

\* No request of a callback is waiting for its answer.
AllAnswered == \A o \in Outputs : callbacks[o].status # "requested"

\* The title a chart shows for the values a callback was sent.
TitleFor(o, state) ==
    CASE o = "pie-chart" ->
            "Expenditures (% GDP) in " \o ToString(state.year) \o " for " \o state.country
      [] o = "corr-chart" -> "Correlation of DALY indicators for " \o state.country
      [] o = "map" ->
            "Global Variation of " \o state.indicator \o " DALYs in " \o ToString(state.year)
      [] OTHER ->
            "Annual Variation of " \o state.indicator \o " DALYs for " \o state.country

\* The values the dropdowns held at the last request of the callbacks: every
\* callback was sent its own part of them.
SentTo(o, values) == callbacks[o].state = StateOf(o, values)

\* A change of a dropdown without a click changes no chart and no title and
\* requests no callback.
PickerChangeDrawsNothing ==
    (pickers' # pickers /\ n_clicks' = n_clicks /\ pc = "app_open") =>
        (charts' = charts /\ callbacks' = callbacks)

\* A chart changes only as the answer to a request, and a request is made only
\* by a click on the button or by the opening of the page.
DrawnOnlyOnApply ==
    \A o \in Outputs :
        /\ charts'[o] # charts[o] => callbacks[o].status = "requested"
        /\ (callbacks'[o].status = "requested" /\ callbacks'[o] # callbacks[o]) =>
              (n_clicks' = n_clicks + 1 \/ pc = "app_ready")

\* Once the requests of the last click (or of the opening of the page) are
\* answered, every chart is the one its function draws for the values the
\* dropdowns held at that click.
ChartsReflectApply ==
    (pc = "app_open" /\ AllAnswered) =>
        \A o \in Outputs :
            /\ callbacks[o].n_clicks = n_clicks
            /\ callbacks[o].status = "done"
            /\ charts[o].title = TitleFor(o, callbacks[o].state)
            /\ charts[o].figure = Answer(o, callbacks[o].state).figure

\* C24: in the dashboard a change of the country, year, correlation-indicator
\* or indicator picker alone changes none of the four charts and titles; the
\* charts are drawn again only when the apply button is clicked and when the
\* page is opened; and after a click all four charts and titles are those of the
\* picker values at that click.
C24_ChartsFollowApplyOnly ==
    [](ChartsReflectApply) /\ [][PickerChangeDrawsNothing /\ DrawnOnlyOnApply]_vars

\* The same for the charts whose callback returned: each is the chart of the
\* values it was sent, and the four callbacks were sent the values of one click.
ChartsReflectApplyWhereDrawn ==
    (pc = "app_open" /\ AllAnswered) =>
        /\ \E values \in [country : Options.country, year : Options.year,
                          corr : Options.corr, indicator : Options.indicator] :
              \A o \in Outputs : SentTo(o, values)
        /\ \A o \in Outputs :
              /\ callbacks[o].n_clicks = n_clicks
              /\ callbacks[o].status = "done" =>
                    /\ charts[o].title = TitleFor(o, callbacks[o].state)
                    /\ charts[o].figure = Answer(o, callbacks[o].state).figure

====
